---- MODULE Spec2Model ----
(***************************************************************************)
(* Model of the name-change tracker of psychic-telegram-bot:               *)
(*   - tgbot/announce_guard.py  the two-tier announcement guard            *)
(*   - chats/repository.py      the chat_members rows (Membership)         *)
(*   - welcome/repository.py    the user_names rows (identity snapshots)   *)
(*   - tgbot/scanner.py         the background scan tick                   *)
(*   - tgbot/handlers.py        the event-triggered detector and welcomes  *)
(*                                                                         *)
(* Time is the whole-second UTC clock of the database (UTC_TIMESTAMP());   *)
(* the in-process caches read the same clock.                              *)
(***************************************************************************)
EXTENDS Integers, Sequences, FiniteSets, Bags, TLC

\* ------------------------------------------------------------------ bounds
\* Seconds the clock may advance to.
MaxClock == 2
\* Concurrent guard calls that may be in flight at once.
NCalls == 2
\* Capacity of the guard's LRU, standing for _MAX_ENTRIES (100_000 in the source).
MaxEntries == 1
\* The guard's in-memory TTL in clock ticks, standing for _ANNOUNCE_TTL_SECONDS (300).
AnnounceTtl == 1
\* Characters of a fingerprint the store keeps, standing for the 300 of fp[:300].
StoreLen == 5
\* The welcome guard's TTL, standing for _WELCOME_TTL_SECONDS (30).
WelcomeTtl == 1
\* Capacity of the welcome guard, standing for _WELCOME_GUARD_MAX (100_000).
WelcomeGuardMax == 1
\* The activity throttle's window, standing for _SNAPSHOT_THROTTLE_SECONDS (300).
ThrottleTtl == 1
\* Handler invocations that may be in flight at once.
NHandlers == 2
\* The scanner's batch_size (LIMIT of pick_members_for_scan).
BatchSize == 3
\* Scanner ticks that are followed.
MaxTicks == 1

\* Bot processes sharing the database, each with its own in-memory caches.
Procs == {1, 2}
CallIds == 1..NCalls
HandlerIds == 1..NHandlers
\* (chat_id, user_id) keys of chat_members: pair 1 is user 1 in chat 1, pair 2
\* user 2 in chat 1, pair 3 user 1 in chat 2.
Pairs == {1, 2, 3}
Users == {1, 2}
ChatOf(k) == <<1, 1, 2>>[k]
UserOf(k) == <<1, 2, 1>>[k]
\* The pair the guard's calls are driven on.
GuardPairs == {1}

\* ------------------------------------------------------- text normalisation
\* A string is a sequence of characters; a character is named by its class:
\* "a" "b" "c" "u" "x" "y" letters, "e" + "acute" (combining) composing to
\* "eacute" under NFC, "sp" the ASCII space, "nbsp" a Zs separator, "ls" the
\* line separator (Zl, matched by \s), "zwsp" and "zwj" format characters
\* (Cf), "nl" a control character (Cc).
Zs == {"sp", "nbsp"}
CfCc == {"zwsp", "zwj", "nl"}
Whitespace == {"sp", "ls"}

RECURSIVE NFC(_)
\* unicodedata.normalize("NFC", v): a base letter and the combining mark that
\* directly follows it compose.
NFC(s) ==
    IF Len(s) < 2 THEN s
    ELSE IF s[1] = "e" /\ s[2] = "acute"
         THEN <<"eacute">> \o NFC(SubSeq(s, 3, Len(s)))
         ELSE <<s[1]>> \o NFC(Tail(s))

RECURSIVE collapse_unicode_spaces(_)
collapse_unicode_spaces(s) ==
    IF s = << >> THEN << >>
    ELSE <<IF s[1] \in Zs THEN "sp" ELSE s[1]>> \o collapse_unicode_spaces(Tail(s))

strip_invisibles_and_controls(s) == SelectSeq(s, LAMBDA ch : ch \notin CfCc)

RECURSIVE SkipSpace(_)
SkipSpace(s) ==
    IF s # << >> /\ s[1] \in Whitespace THEN SkipSpace(Tail(s)) ELSE s

RECURSIVE Squash(_)
\* re.sub(r"\s+", " ", s)
Squash(s) ==
    IF s = << >> THEN << >>
    ELSE IF s[1] \in Whitespace THEN <<"sp">> \o Squash(SkipSpace(s))
         ELSE <<s[1]>> \o Squash(Tail(s))

RECURSIVE DropTrailing(_)
DropTrailing(s) ==
    IF s # << >> /\ s[Len(s)] \in Whitespace
    THEN DropTrailing(SubSeq(s, 1, Len(s) - 1)) ELSE s

\* str.strip()
Strip(s) == DropTrailing(SkipSpace(s))

\* sanitize_name; None and "" are both << >>.
sanitize_name(v) ==
    IF v = << >> THEN << >>
    ELSE Strip(Squash(strip_invisibles_and_controls(collapse_unicode_spaces(NFC(v)))))

\* s[:n]
Take(s, n) == SubSeq(s, 1, IF Len(s) < n THEN Len(s) ELSE n)

\* ------------------------------------------------------------- fingerprints
\* "\x1f".join of the three canonical fields.
name_fingerprint(fn, ln, un) ==
    sanitize_name(fn) \o <<"US">> \o sanitize_name(ln) \o <<"US">> \o sanitize_name(un)

\* last_announced_fp IS NULL.
NoFp == <<"NULL">>

RECURSIVE Fill(_, _)
Fill(ch, n) == IF n = 0 THEN << >> ELSE <<ch>> \o Fill(ch, n - 1)

\* The fingerprints the guard's calls are driven with: two that fit the store
\* and one that is longer and agrees with the first on what the store keeps.
Fingerprints == {Fill("x", StoreLen), Fill("y", StoreLen), Fill("x", StoreLen + 1)}

\* fp[:300] of set_last_announced_fp.
Cut(fp) == Take(fp, StoreLen)

VARIABLES
    now,        \* the clock
    rows,       \* chat_members: Pairs -> row
    cache,      \* announce_guard._store of each process: a sequence, oldest first
    calls,      \* should_announce_persisted calls in flight
    scen,       \* the call pattern being driven (free calls, a burst, a sequence)
    identity,   \* the profile each user shows on the platform
    member,     \* whether the user of a pair is in the chat of the pair
    events,     \* join updates the platform has sent and no handler has taken
    snaps,      \* user_names: Users -> set of rows
    ncache,     \* handlers._name_cache of each process
    wguard,     \* handlers._welcome_guard of each process
    hs,         \* handler invocations in flight
    scan,       \* the scanner's tick
    sent,       \* what each chat was last told about a pair
    welcomed,   \* the welcomes of the current stay of a pair
    outage,     \* the platform and the database may fail
    pending,    \* an announcement that failed and has not been made up for
    known,      \* users: the user ids that have a row
    active,     \* the pairs of which the detector has processed an activity
    writers,    \* import requests in flight: the inserts each has still to issue
    stamped,    \* the latest time each canonical tuple of a user was recorded with
    txt,        \* a string put through sanitize_name
    table,      \* chat_members as a table: the bag of the (chat, user) keys of its rows
    chats,      \* chats: chat id -> row
    pace,       \* the scanner's pacing: the monotonic clock and last_call_ts
    lru         \* the three bounded caches taken alone, and the order of use of the keys

guardOnly == <<calls, scen>>
aside == <<writers, stamped, txt, chats, pace, lru>>
apart == <<aside, table>>
sysQuiet == <<identity, member, events, snaps, ncache, wguard, hs, scan, sent,
              welcomed, outage, pending, known, active, writers, stamped, txt, chats,
              pace, lru>>
sysOnly == <<sysQuiet, table>>
guardVars == <<now, rows, cache, calls, scen>>
vars == <<now, rows, cache, calls, scen, identity, member, events, snaps,
          ncache, wguard, hs, scan, sent, welcomed, outage, pending, known,
          active, writers, stamped, txt, table, chats, pace, lru>>

\* ------------------------------------------------------- chat_members rows
NoRow == [present |-> FALSE, first_seen |-> 0, last_seen |-> 0,
          last_checked |-> 0, fp |-> NoFp]

\* INSERT ... ON DUPLICATE KEY UPDATE last_seen_at = UTC_TIMESTAMP()
add_or_touch_member(rs, k, t) ==
    IF rs[k].present
    THEN [rs EXCEPT ![k].last_seen = t]
    ELSE [rs EXCEPT ![k] = [present |-> TRUE, first_seen |-> t, last_seen |-> t,
                            last_checked |-> 0, fp |-> NoFp]]

\* A plausible slip: the row of a member that left is kept.
remove_member_kept(rs, k) == rs

\* A plausible slip: the row is flagged as gone and keeps its columns.
remove_member_soft(rs, k) == [rs EXCEPT ![k].present = FALSE]

\* DELETE FROM chat_members WHERE chat_id = :cid AND user_id = :uid
remove_member(rs, k) == [rs EXCEPT ![k] = NoRow]

\* A plausible slip: the heartbeat column is the one written.
mark_checked_seen(rs, k, t) ==
    IF rs[k].present THEN [rs EXCEPT ![k].last_seen = t] ELSE rs

\* UPDATE chat_members SET last_checked_at = UTC_TIMESTAMP() WHERE ...
mark_checked(rs, k, t) ==
    IF rs[k].present THEN [rs EXCEPT ![k].last_checked = t] ELSE rs

\* The key of the row of a pair.
KeyOf(k) == <<ChatOf(k), UserOf(k)>>

\* A plausible slip: a plain INSERT.
insert_row(tb, k) == tb (+) SetToBag({KeyOf(k)})

\* add_or_touch_member on the table: a row is inserted unless the key has one.
add_or_touch_row(tb, k) ==
    IF BagIn(KeyOf(k), tb) THEN tb ELSE tb (+) SetToBag({KeyOf(k)})

\* remove_member on the table: every row of the key goes.
remove_rows(tb, k) == [x \in DOMAIN tb \ {KeyOf(k)} |-> tb[x]]

\* prune_chat_members_for_chat on the table: every row of the chat goes.
prune_rows(tb, c) == [x \in {y \in DOMAIN tb : y[1] # c} |-> tb[x]]

\* The table that holds the rows rs.
TableOf(rs) == SetToBag({KeyOf(k) : k \in {j \in Pairs : rs[j].present}})

\* A plausible slip: the WHERE clause without the fingerprint comparison.
set_last_announced_fp_uncond(rs, k, fp, t) ==
    IF rs[k].present
    THEN [updated |-> TRUE,
          rows |-> [rs EXCEPT ![k].fp = Cut(fp)]]
    ELSE [updated |-> FALSE, rows |-> rs]

\* A plausible slip: the row is created when it is missing.
set_last_announced_fp_upsert(rs, k, fp, t) ==
    IF ~rs[k].present
    THEN [updated |-> TRUE,
          rows |-> [rs EXCEPT ![k] = [present |-> TRUE, first_seen |-> t,
                                      last_seen |-> t, last_checked |-> 0,
                                      fp |-> Cut(fp)]]]
    ELSE IF rs[k].fp = NoFp \/ rs[k].fp # Cut(fp)
         THEN [updated |-> TRUE, rows |-> [rs EXCEPT ![k].fp = Cut(fp)]]
         ELSE [updated |-> FALSE, rows |-> rs]

\* UPDATE chat_members SET last_announced_fp = :fp, last_announced_at = now
\*  WHERE chat_id = :cid AND user_id = :uid
\*    AND (last_announced_fp IS NULL OR last_announced_fp <> :fp)
\* with :fp = fp[:300]; updated iff rowcount > 0.
set_last_announced_fp(rs, k, fp, t) ==
    IF rs[k].present /\ (rs[k].fp = NoFp \/ rs[k].fp # Cut(fp))
    THEN [updated |-> TRUE,
          rows |-> [rs EXCEPT ![k].fp = Cut(fp)]]
    ELSE [updated |-> FALSE, rows |-> rs]

\* ------------------------------------------------------------ the LRU cache
NoEntry == [key |-> 0, fp |-> NoFp, ts |-> 0]

HasKey(c, key) == \E i \in 1..Len(c) : c[i].key = key

\* A plausible slip: a lookup leaves the order as it is.
get_peek(c, key) ==
    IF HasKey(c, key)
    THEN [item |-> c[CHOOSE i \in 1..Len(c) : c[i].key = key], store |-> c]
    ELSE [item |-> NoEntry, store |-> c]

\* _LRU.get_move: the entry (or NoEntry) and the order after move_to_end.
get_move(c, key) ==
    IF HasKey(c, key)
    THEN LET e == (CHOOSE i \in 1..Len(c) : c[i].key = key)
         IN [item |-> c[e],
             store |-> Append(SelectSeq(c, LAMBDA x : x.key # key), c[e])]
    ELSE [item |-> NoEntry, store |-> c]

\* _LRU.set of a cache of the given maxsize: store, move to the end, evict
\* the oldest beyond maxsize.
lru_set_max(c, key, fp, ts, maxsize) ==
    LET put == Append(SelectSeq(c, LAMBDA x : x.key # key),
                      [key |-> key, fp |-> fp, ts |-> ts])
    IN IF Len(put) > maxsize THEN Tail(put) ELSE put

\* _LRU.set of _store (maxsize = _MAX_ENTRIES).
lru_set(c, key, fp, ts) == lru_set_max(c, key, fp, ts, MaxEntries)

\* _UserNameCache.get_cached: the entry (or NoEntry) and the order after
\* move_to_end.
get_cached(c, u) == get_move(c, u)

\* _UserNameCache.put: store, move to the end, evict the oldest beyond
\* _maxsize.
cache_put(c, u, name, ts, maxsize) ==
    LET p == Append(SelectSeq(c, LAMBDA x : x.key # u),
                    [key |-> u, name |-> name, ts |-> ts])
    IN IF Len(p) > maxsize THEN Tail(p) ELSE p

\* The three caches taken alone, with the keys in the order of their last use
\* and the key the last operation evicted (0: none).
NoLru == [guard |-> << >>, names |-> << >>, welcome |-> << >>, used |-> << >>,
          evicted |-> NoEntry]

\* A plausible slip: the age of the entry is not looked at.
should_announce_no_ttl(c, key, fp, t) ==
    LET g == get_move(c, key)
    IN IF g.item # NoEntry /\ g.item.fp = fp
       THEN [ok |-> FALSE, store |-> g.store]
       ELSE [ok |-> TRUE, store |-> lru_set(g.store, key, fp, t)]

\* should_announce: [ok, store].
should_announce(c, key, fp, t) ==
    LET g == get_move(c, key)
    IN IF g.item # NoEntry /\ g.item.fp = fp /\ (t - g.item.ts) < AnnounceTtl
       THEN [ok |-> FALSE, store |-> g.store]
       ELSE [ok |-> TRUE, store |-> lru_set(g.store, key, fp, t)]

\* --------------------------------------------------------------- identities
\* Profiles as the platform reports them: (first_name, last_name, username).
PA == <<<<"a">>, << >>, << >>>>
PB == <<<<"b">>, << >>, << >>>>
PC == <<<<"a", "zwsp">>, <<"c">>, <<"u">>>>
\* PA with a zero-width space after the first name.
PZ == <<<<"a", "zwsp">>, << >>, << >>>>
\* An accented first name in decomposed form, and the same with a zero-width
\* space before the accent.
PE == <<<<"e", "acute">>, << >>, << >>>>
PF == <<<<"e", "zwsp", "acute">>, << >>, << >>>>
Profiles == {PA, PB, PC, PZ, PE, PF}
NoProf == << >>

\* _UserNameCache.get_tuple, and curr_fn, curr_ln, curr_un of the scanner,
\* tabulated over the profiles.
CanonOf ==
    [prof \in Profiles |->
        <<sanitize_name(prof[1]), sanitize_name(prof[2]), sanitize_name(prof[3])>>]
Canon(prof) == CanonOf[prof]

\* name_fingerprint(curr_fn, curr_ln, curr_un), tabulated over the profiles.
FpOf ==
    [prof \in Profiles |->
        name_fingerprint(CanonOf[prof][1], CanonOf[prof][2], CanonOf[prof][3])]
Fp(prof) == FpOf[prof]

\* ---------------------------------------------------------- user_names rows
NoSnap == [fn |-> << >>, ln |-> << >>, un |-> << >>, seen_at |-> 0, id |-> 0]

\* A plausible slip: the row takes the timestamp of the last insert.
Newer(a, b) == b

Later(a, b) == IF a < b THEN b ELSE a

\* The AUTO_INCREMENT id of the next row.
NextId(sn) ==
    LET all == UNION {sn[u] : u \in Users}
    IN IF all = {} THEN 1
       ELSE 1 + (CHOOSE m \in {r.id : r \in all} : \A r \in all : r.id <= m)

\* A plausible slip: the user's row is rewritten in place.
insert_name_snapshot_in_place(sn, u, first_name, last_name, username, t) ==
    [sn EXCEPT ![u] =
        {[fn |-> Take(sanitize_name(first_name), 64),
          ln |-> Take(sanitize_name(last_name), 64),
          un |-> Take(sanitize_name(username), 32),
          seen_at |-> t, id |-> NextId(sn)]}]

\* A plausible slip: no unique key stands in the way of the insert.
insert_name_snapshot_blind(sn, u, first_name, last_name, username, t) ==
    [sn EXCEPT ![u] = sn[u] \cup
        {[fn |-> Take(sanitize_name(first_name), 64),
          ln |-> Take(sanitize_name(last_name), 64),
          un |-> Take(sanitize_name(username), 32),
          seen_at |-> t, id |-> NextId(sn)]}]

\* INSERT ... VALUES (:user_id, :fn, :ln, :un, UTC_TIMESTAMP())
\* ON DUPLICATE KEY UPDATE seen_at = GREATEST(seen_at, VALUES(seen_at))
insert_name_snapshot_if_new(sn, u, first_name, last_name, username, t) ==
    LET fn == Take(sanitize_name(first_name), 64)
        ln == Take(sanitize_name(last_name), 64)
        un == Take(sanitize_name(username), 32)
        same == {r \in sn[u] : r.fn = fn /\ r.ln = ln /\ r.un = un}
    IN IF same # {}
       THEN [sn EXCEPT ![u] =
                {IF r \in same THEN [r EXCEPT !.seen_at = Later(r.seen_at, t)] ELSE r
                    : r \in sn[u]}]
       ELSE [sn EXCEPT ![u] = sn[u] \cup
                {[fn |-> fn, ln |-> ln, un |-> un, seen_at |-> t, id |-> NextId(sn)]}]

\* INSERT INTO users ... ON DUPLICATE KEY UPDATE ...
upsert_user(kn, u) == kn \cup {u}

\* upsert_user is applied by the callers of this operator, to the users table.
record_user_snapshot(sn, u, prof, t) ==
    insert_name_snapshot_if_new(sn, u, prof[1], prof[2], prof[3], t)

\* A plausible slip: the cutoff itself is left out.
fetch_snapshot_before(sn, u, cutoff) ==
    LET c == {r \in sn[u] : r.seen_at < cutoff}
    IN IF c = {} THEN NoSnap
       ELSE CHOOSE r \in c :
                \A q \in c : q.seen_at < r.seen_at
                             \/ (q.seen_at = r.seen_at /\ q.id <= r.id)

\* SELECT ... WHERE user_id = :uid AND seen_at <= :ts
\* ORDER BY seen_at DESC, id DESC LIMIT 1
fetch_snapshot_before_or_at(sn, u, cutoff) ==
    LET c == {r \in sn[u] : r.seen_at <= cutoff}
    IN IF c = {} THEN NoSnap
       ELSE CHOOSE r \in c :
                \A q \in c : q.seen_at < r.seen_at
                             \/ (q.seen_at = r.seen_at /\ q.id <= r.id)

\* ORDER BY seen_at ASC, id ASC
RECURSIVE OldestFirst(_)
OldestFirst(rs) ==
    IF rs = {} THEN << >>
    ELSE LET r == CHOOSE r \in rs :
                      \A q \in rs : r.seen_at < q.seen_at
                                    \/ (r.seen_at = q.seen_at /\ r.id <= q.id)
         IN <<[first_name |-> r.fn, last_name |-> r.ln, username |-> r.un,
               seen_at |-> r.seen_at]>> \o OldestFirst(rs \ {r})

\* The None of fetch_history_by_user_id, as opposed to a list.
None == [none |-> TRUE, list |-> << >>]

\* A plausible slip: no look at the users table.
fetch_history_unchecked(sn, kn, u) ==
    IF sn[u] = {} THEN None ELSE [none |-> FALSE, list |-> OldestFirst(sn[u])]

\* The rows of the user oldest first; without rows, None when the user is
\* not in the users table and the empty list when it is.
fetch_history_by_user_id(sn, kn, u) ==
    IF sn[u] = {}
    THEN IF u \notin kn THEN None ELSE [none |-> FALSE, list |-> << >>]
    ELSE [none |-> FALSE, list |-> OldestFirst(sn[u])]

\* GET /user/{user_id}/history
get_history_by_user_id(sn, kn, u) ==
    LET history == fetch_history_by_user_id(sn, kn, u)
    IN IF history = None
       THEN [status |-> 404, history |-> << >>]
       ELSE [status |-> 200, history |-> history.list]

\* 0 is the '1970-01-01 00:00:01' the repository returns for a missing value.
get_member_last_checked(rs, k) == IF rs[k].present THEN rs[k].last_checked ELSE 0
get_member_first_seen(rs, k) == IF rs[k].present THEN rs[k].first_seen ELSE 0

\* The baseline lookup of the handlers and the scanner: as of the watermark,
\* or failing that as of the first-seen time.
prev_for_chat(sn, u, last_checked_at, first_seen_at) ==
    LET a == fetch_snapshot_before_or_at(sn, u, last_checked_at)
    IN IF a # NoSnap THEN a
       ELSE IF first_seen_at # 0
            THEN fetch_snapshot_before_or_at(sn, u, first_seen_at)
            ELSE NoSnap

\* A plausible slip: the handle is not compared.
diff_snap_no_username(prev, cur) ==
    IF prev = NoSnap THEN << >>
    ELSE LET pf == sanitize_name(prev.fn)
             pl == sanitize_name(prev.ln)
         IN (IF pf # cur[1] THEN << <<"first", pf, cur[1]>> >> ELSE << >>)
            \o (IF pl # cur[2] THEN << <<"last", pl, cur[2]>> >> ELSE << >>)

\* A plausible slip: a missing baseline is compared as a row of empty names.
diff_snap_from_blank(prev, cur) ==
    LET pf == sanitize_name(prev.fn)
        pl == sanitize_name(prev.ln)
        pu == sanitize_name(prev.un)
    IN (IF pf # cur[1] THEN << <<"first", pf, cur[1]>> >> ELSE << >>)
       \o (IF pl # cur[2] THEN << <<"last", pl, cur[2]>> >> ELSE << >>)
       \o (IF pu # cur[3] THEN << <<"username", pu, cur[3]>> >> ELSE << >>)

\* _diff_snap, and the same lines inlined in the scanner.
diff_snap(prev, cur) ==
    IF prev = NoSnap THEN << >>
    ELSE LET pf == sanitize_name(prev.fn)
             pl == sanitize_name(prev.ln)
             pu == sanitize_name(prev.un)
         IN (IF pf # cur[1] THEN << <<"first", pf, cur[1]>> >> ELSE << >>)
            \o (IF pl # cur[2] THEN << <<"last", pl, cur[2]>> >> ELSE << >>)
            \o (IF pu # cur[3] THEN << <<"username", pu, cur[3]>> >> ELSE << >>)

\* ---------------------------------------------------------------- chats rows
Chats == {ChatOf(k) : k \in Pairs}
NoChat == [present |-> FALSE, is_active |-> FALSE, bot_status |-> "none", last_seen |-> 0,
           lang |-> "none"]

\* INSERT INTO chats (..., bot_status, is_active, ...) VALUES (..., 'unknown', 1, ...)
\* ON DUPLICATE KEY UPDATE title, chat_type, updated_at, last_seen_at
touch_chat(cs, c, t) ==
    [cs EXCEPT ![c] = IF cs[c].present
                      THEN [cs[c] EXCEPT !.last_seen = t]
                      ELSE [present |-> TRUE, is_active |-> TRUE,
                            bot_status |-> "unknown", last_seen |-> t,
                            lang |-> "en"]]

\* The language codes of the locales.
Langs == {"en", "uk"}

\* A plausible slip: the upsert writes is_active = VALUES(is_active) as well.
set_chat_language_activates(cs, c, code, t) ==
    [cs EXCEPT ![c] = [present |-> TRUE, is_active |-> TRUE,
                       bot_status |-> IF cs[c].present THEN cs[c].bot_status
                                      ELSE "unknown",
                       last_seen |-> t, lang |-> code]]

\* INSERT INTO chats (..., language_code, ..., bot_status, is_active, ...)
\* VALUES (..., :lang, ..., 'unknown', 1, ...)
\* ON DUPLICATE KEY UPDATE title, language_code, updated_at, last_seen_at
set_chat_language(cs, c, code, t) ==
    [cs EXCEPT ![c] = IF cs[c].present
                      THEN [cs[c] EXCEPT !.lang = code, !.last_seen = t]
                      ELSE [present |-> TRUE, is_active |-> TRUE,
                            bot_status |-> "unknown", last_seen |-> t,
                            lang |-> code]]

\* A plausible slip: the presence is written the way touch_chat writes a row.
set_bot_presence_touch(cs, c, status, t) == touch_chat(cs, c, t)

\* The upsert of the bot's presence: active iff status is member or
\* administrator.
set_bot_presence(cs, c, status, t) ==
    [cs EXCEPT ![c] = [present |-> TRUE,
                       is_active |-> status \in {"member", "administrator"},
                       bot_status |-> status, last_seen |-> t,
                       lang |-> IF cs[c].present THEN cs[c].lang ELSE "en"]]

\* mark_chat_inactive(session, chat_id, status="left")
mark_chat_inactive(cs, c, t) == set_bot_presence(cs, c, "left", t)

\* The chats rows once every chat that has a member row was touched at time t.
ChatsOf(rs, t) ==
    [c \in Chats |->
        IF \E k \in Pairs : ChatOf(k) = c /\ rs[k].present
        THEN [present |-> TRUE, is_active |-> TRUE, bot_status |-> "unknown",
              last_seen |-> t, lang |-> "en"]
        ELSE NoChat]

\* DELETE FROM chat_members WHERE chat_id = :cid
prune_chat_members_for_chat(rs, c) ==
    [k \in Pairs |-> IF ChatOf(k) = c THEN NoRow ELSE rs[k]]

\* A plausible slip: ties are broken by last_seen_at ascending.
ScansBeforeAsc(rs, a, b) ==
    \/ rs[a].last_checked < rs[b].last_checked
    \/ rs[a].last_checked = rs[b].last_checked /\ rs[a].last_seen < rs[b].last_seen

\* SELECT ... FROM chat_members ORDER BY last_checked_at ASC, last_seen_at DESC
\* LIMIT :lim -- every order the rows may come back in.
ScansBefore(rs, a, b) ==
    \/ rs[a].last_checked < rs[b].last_checked
    \/ rs[a].last_checked = rs[b].last_checked /\ rs[a].last_seen > rs[b].last_seen

pick_members_for_scan(rs, limit) ==
    LET present == {k \in Pairs : rs[k].present}
        n == IF Cardinality(present) < limit THEN Cardinality(present) ELSE limit
    IN {q \in [1..n -> present] :
           /\ \A i, j \in 1..n : i < j => q[i] # q[j] /\ ~ScansBefore(rs, q[j], q[i])
           /\ \A k \in present :
                 (\A i \in 1..n : q[i] # k) => \A i \in 1..n : ~ScansBefore(rs, k, q[i])}

\* ------------------------------------------------------ the activity throttle
NoName == [name |-> NoProf, ts |-> 0]

\* _should_skip
should_skip(nc, u, prof, t) ==
    nc[u] # NoName /\ nc[u].name = Canon(prof) /\ (t - nc[u].ts) < ThrottleTtl

\* _update_cache (the cache holds more users than the model has).
update_cache(nc, u, prof, t) == [nc EXCEPT ![u] = [name |-> Canon(prof), ts |-> t]]

\* ---------------------------------------------------------- the welcome guard
RECURSIVE cleanup(_, _, _)
\* _RecentWelcomeGuard._cleanup
cleanup(g, t, ttl) ==
    IF g # << >> /\ (t - g[1].ts) > ttl THEN cleanup(Tail(g), t, ttl) ELSE g

\* The timestamp the guard holds for a key (0: none).
WelcomeMark(g, key) ==
    IF \E i \in 1..Len(g) : g[i].key = key
    THEN g[CHOOSE i \in 1..Len(g) : g[i].key = key].ts
    ELSE 0

\* A plausible slip: the guard answers without marking the key.
should_welcome_unmarked(g, key, t) ==
    LET c == cleanup(g, t, WelcomeTtl)
        ts == WelcomeMark(c, key)
    IN IF ts # 0 /\ (t - ts) < WelcomeTtl
       THEN [ok |-> FALSE, store |-> c]
       ELSE [ok |-> TRUE, store |-> c]

\* _RecentWelcomeGuard.should_welcome: [ok, store].
should_welcome(g, key, t) ==
    LET c == cleanup(g, t, WelcomeTtl)
        ts == WelcomeMark(c, key)
    IN IF ts # 0 /\ (t - ts) < WelcomeTtl
       THEN [ok |-> FALSE, store |-> c]
       ELSE LET put == Append(SelectSeq(c, LAMBDA x : x.key # key),
                              [key |-> key, ts |-> t])
            IN [ok |-> TRUE,
                store |-> IF Len(put) > WelcomeGuardMax THEN Tail(put) ELSE put]

\* ------------------------------------------------- handlers and scanner state
IdleH == [pc |-> "idle", kind |-> "none", proc |-> 1, pair |-> 1,
          prof |-> NoProf, prev |-> NoSnap]

NoCur == [pair |-> 1, cutoff |-> 0]

IdleScan == [pc |-> "idle", ticks |-> 0, proc |-> 1, leeway |-> 0, batch_size |-> 0,
             trigger |-> 0,
             batch |-> << >>,
             queue |-> << >>, cur |-> NoCur, prof |-> NoProf, diffs |-> << >>,
             res |-> "none", nsent |-> 0, out |-> "none", retry |-> 0,
             wait |-> 0, handled |-> << >>, limited |-> {}, awaiting |-> {},
             owed |-> [k \in Pairs |-> {}]]

NoSent == [fp |-> NoFp, tog |-> 0]
NoWelcome == [n |-> 0, calls |-> << >>, crowded |-> FALSE]

\* The pacing of a scanner that is not followed.
NoPace == [pc |-> "off", clock |-> 0, min_gap |-> 0, leeway |-> 0, job_ts |-> 0,
           last_call_ts |-> 0, prev |-> -1, cur |-> -1, back |-> -1, after |-> -1,
           calls |-> 0, runs |-> 0, fresh |-> FALSE, across |-> FALSE]

\* Import requests that may be in flight at once.
Writers == {1, 2}
NoImport == [user |-> 1, items |-> << >>]
NoText == [inp |-> << >>, once |-> << >>, twice |-> << >>, st |-> "none"]

\* No import is in flight and the table view of chat_members is not followed.
ImportIdle ==
    /\ writers = [w \in Writers |-> NoImport]
    /\ stamped = [u \in Users |-> {}]
    /\ table = TableOf(rows)
    /\ chats = ChatsOf(rows, now)
    /\ pace = NoPace
    /\ lru = NoLru

\* The program at rest, whatever the string to canonicalize.
Untexted ==
    /\ identity = [u \in Users |-> PA]
    /\ member = [k \in Pairs |-> FALSE]
    /\ events = [k \in Pairs |-> {}]
    /\ snaps = [u \in Users |-> {}]
    /\ ncache = [p \in Procs |-> [u \in Users |-> NoName]]
    /\ wguard = [p \in Procs |-> << >>]
    /\ hs = [h \in HandlerIds |-> IdleH]
    /\ scan = IdleScan
    /\ sent = [k \in Pairs |-> NoSent]
    /\ welcomed = [k \in Pairs |-> NoWelcome]
    /\ outage = FALSE
    /\ pending = [k \in Pairs |-> NoFp]
    /\ known = {}
    /\ active = [k \in Pairs |-> FALSE]
    /\ ImportIdle

\* Nothing but the guard's calls is going on.
SysIdle == Untexted /\ txt = NoText

\* ------------------------------------------------------------- guard calls
IdleCall == [st |-> "idle", proc |-> 1, pair |-> 1, fp |-> NoFp, res |-> "none"]

AllIdle == \A c \in CallIds : calls[c].st = "idle"
\* A free call that has returned: its caller takes the result at once.
Returning == scen.kind = "free" /\ \E c \in CallIds : calls[c].st = "done"
AllDone == \A c \in CallIds : calls[c].st = "done"

FreeScen == [kind |-> "free", proc |-> 1, pair |-> 1, a |-> NoFp, b |-> NoFp,
             res |-> << >>]

\* The outcome of the persisted tier alone, as the store stands.
PersistedOutcome(rs, k, fp) ==
    IF set_last_announced_fp(rs, k, fp, 0).updated THEN "allow" ELSE "suppress"

GuardInit ==
    /\ now = 1
    /\ rows = [k \in Pairs |-> IF k \in GuardPairs
                                THEN add_or_touch_member([j \in Pairs |-> NoRow], k, 1)[k]
                                ELSE NoRow]
    /\ cache = [p \in Procs |-> << >>]
    /\ calls = [c \in CallIds |-> IdleCall]
    /\ scen = FreeScen
    /\ SysIdle

Tick ==
    /\ ~Returning
    /\ now < MaxClock
    /\ now' = now + 1
    /\ UNCHANGED <<rows, cache, calls, scen>>
    /\ UNCHANGED sysOnly

\* The calls the driven pattern lets start now: any call when free, the burst's
\* fingerprint from any process in a burst, the next call of the sequence.
MayStart(c, p, k, fp) ==
    \/ scen.kind = "free"
    \/ scen.kind = "burst" /\ k = scen.pair /\ fp = scen.a
    \/ /\ scen.kind = "seq" /\ c = 1 /\ p = scen.proc /\ k = scen.pair
       /\ Len(scen.res) < 3
       /\ fp = (IF Len(scen.res) = 1 THEN scen.b ELSE scen.a)

\* should_announce_persisted(session, chat, user, fp) is called: tier 1
\* (should_announce) runs without suspension; a False ends the call, a True
\* leaves it awaiting the conditional UPDATE.
Start(c, p, k, fp) ==
    /\ ~Returning
    /\ calls[c].st = "idle"
    /\ MayStart(c, p, k, fp)
    /\ LET r == should_announce(cache[p], k, fp, now)
       IN /\ cache' = [cache EXCEPT ![p] = r.store]
          /\ calls' = [calls EXCEPT ![c] =
                [st |-> IF r.ok THEN "t2" ELSE "done", proc |-> p, pair |-> k,
                 fp |-> fp, res |-> IF r.ok THEN "none" ELSE "local"]]
    /\ UNCHANGED <<now, rows, scen>>
    /\ UNCHANGED sysOnly

\* Tier 2: the conditional UPDATE (and the caller's commit) takes effect.
Tier2(c) ==
    /\ ~Returning
    /\ calls[c].st = "t2"
    /\ LET r == set_last_announced_fp(rows, calls[c].pair, calls[c].fp, now)
       IN /\ rows' = r.rows
          /\ calls' = [calls EXCEPT ![c].st = "done",
                           ![c].res = IF r.updated THEN "allow" ELSE "suppress"]
    /\ UNCHANGED <<now, cache, scen>>
    /\ UNCHANGED sysOnly

\* Tier 2 raises (the database is unavailable): the exception reaches the caller.
Tier2Fail(c) ==
    /\ ~Returning
    /\ calls[c].st = "t2"
    /\ calls' = [calls EXCEPT ![c].st = "done", ![c].res = "raise"]
    /\ UNCHANGED <<now, rows, cache, scen>>
    /\ UNCHANGED sysOnly

\* The caller has taken the result.
Retire(c) ==
    /\ scen.kind = "free"
    /\ calls[c].st = "done"
    /\ calls' = [calls EXCEPT ![c] = IdleCall]
    /\ UNCHANGED <<now, rows, cache, scen>>
    /\ UNCHANGED sysOnly

\* A process restarts: its in-memory cache is gone.
ClearCache(p) ==
    /\ ~Returning
    /\ \A c \in CallIds : calls[c].st = "t2" => calls[c].proc # p
    /\ cache[p] # << >>
    /\ cache' = [cache EXCEPT ![p] = << >>]
    /\ UNCHANGED <<now, rows, calls, scen>>
    /\ UNCHANGED sysOnly

\* The entity leaves (remove_member) ...
DeleteRow(k) ==
    /\ ~Returning
    /\ scen.kind = "free"
    /\ rows[k].present
    /\ rows' = remove_member(rows, k)
    /\ UNCHANGED <<now, cache, calls, scen>>
    /\ table' = remove_rows(table, k)
    /\ UNCHANGED sysQuiet

\* ... and is seen again (add_or_touch_member).
CreateRow(k) ==
    /\ ~Returning
    /\ scen.kind = "free"
    /\ ~rows[k].present
    /\ rows' = add_or_touch_member(rows, k, now)
    /\ UNCHANGED <<now, cache, calls, scen>>
    /\ table' = add_or_touch_row(table, k)
    /\ UNCHANGED sysQuiet

\* N concurrent calls with one fingerprint, from any mix of processes.
BeginBurst(k, fp) ==
    /\ ~Returning
    /\ scen.kind = "free"
    /\ AllIdle
    /\ rows[k].present
    /\ rows[k].fp # Cut(fp)
    /\ scen' = [FreeScen EXCEPT !.kind = "burst", !.pair = k, !.a = fp]
    /\ UNCHANGED <<now, rows, cache, calls>>
    /\ UNCHANGED sysOnly

\* guard(c,e,A); guard(c,e,B); guard(c,e,A), one after the other, by one process,
\* with A and B that differ within the storage length.
BeginSeq(p, k, a, b) ==
    /\ ~Returning
    /\ scen.kind = "free"
    /\ AllIdle
    /\ Cut(a) # Cut(b)
    /\ rows[k].present
    /\ rows[k].fp # Cut(a)
    /\ scen' = [kind |-> "seq", proc |-> p, pair |-> k, a |-> a, b |-> b,
                res |-> << >>]
    /\ UNCHANGED <<now, rows, cache, calls>>
    /\ UNCHANGED sysOnly

\* The sequence's caller takes a result and goes on to the next call.
SeqNext ==
    /\ scen.kind = "seq"
    /\ calls[1].st = "done"
    /\ scen' = [scen EXCEPT !.res = Append(scen.res, calls[1].res)]
    /\ calls' = [calls EXCEPT ![1] = IdleCall]
    /\ UNCHANGED <<now, rows, cache>>
    /\ UNCHANGED sysOnly

EndScenario ==
    /\ \/ scen.kind = "burst" /\ AllDone
       \/ scen.kind = "seq" /\ Len(scen.res) = 3
    /\ scen' = FreeScen
    /\ calls' = [c \in CallIds |-> IdleCall]
    /\ UNCHANGED <<now, rows, cache>>
    /\ UNCHANGED sysOnly

GuardNext ==
    \/ Tick
    \/ \E c \in CallIds, p \in Procs, k \in GuardPairs, fp \in Fingerprints : Start(c, p, k, fp)
    \/ \E c \in CallIds : Tier2(c)
    \/ \E c \in CallIds : Retire(c)
    \/ \E p \in Procs : ClearCache(p)
    \/ \E k \in GuardPairs : DeleteRow(k)
    \/ \E k \in GuardPairs : CreateRow(k)
    \/ \E k \in GuardPairs, fp \in Fingerprints : BeginBurst(k, fp)
    \/ \E p \in Procs, k \in GuardPairs, a \in Fingerprints, b \in Fingerprints :
          BeginSeq(p, k, a, b)
    \/ SeqNext
    \/ EndScenario

\* The guard with a healthy database.
SpecGuard == GuardInit /\ [][GuardNext]_vars

GuardFaultNext ==
    \/ GuardNext
    \/ \E c \in CallIds : Tier2Fail(c)

\* The guard with a database that may fail any conditional UPDATE.
SpecGuardFault == GuardInit /\ [][GuardFaultNext]_vars

\* ------------------------------------------------------ claims on the guard
Allows == {c \in CallIds : calls[c].res = "allow"}

\* C2: N concurrent should_announce_persisted(c, e, F) calls with one F, for a
\* pair whose row exists and whose stored fingerprint is not F, from one or
\* several processes: exactly one returns allow, the others suppress.
C2_BurstExactlyOneAllow ==
    (scen.kind = "burst" /\ AllDone /\ \A c \in CallIds : calls[c].res # "raise")
        => Cardinality(Allows) = 1

\* C3: the sequential calls guard(A), guard(B), guard(A) with A # B on a pair
\* with a row all return allow, whatever the time between them.
C3_SeqAllAllow ==
    scen.kind = "seq" =>
        \A i \in 1..Len(scen.res) : scen.res[i] \in {"allow", "raise"}

\* C4: should_announce_persisted returns allow only when the conditional update
\* changed the row: before it the stored fingerprint was absent or differed
\* from fp[:300], right after it the stored fingerprint is fp[:300]; a call
\* that finds the stored fingerprint equal to its own never returns allow.
C4_AllowOnlyOnChange ==
    [][\A c \in CallIds :
         (calls[c].st # "done" /\ calls'[c].st = "done" /\ calls'[c].res = "allow")
            => LET k == calls'[c].pair
                   f == calls'[c].fp
               IN /\ calls[c].st = "t2"
                  /\ rows[k].present
                  /\ rows[k].fp # Cut(f)
                  /\ rows' # rows
                  /\ rows'[k].fp = Cut(f)]_vars

\* C4's case: a call with an over-long fingerprint has returned allow and the
\* row holds the fingerprint cut to the storage length.
C4_Witness ==
    \E c \in CallIds :
        /\ calls[c].st = "done" /\ calls[c].res = "allow"
        /\ calls[c].fp # Cut(calls[c].fp)
        /\ rows[calls[c].pair].fp = Cut(calls[c].fp)

\* Another call of the burst is still on its way to the store with the same
\* fingerprint: the local tier absorbs this one for it.
SameInFlight(c, k, f) ==
    \E d \in CallIds \ {c} :
        calls[d].st = "t2" /\ calls[d].pair = k /\ Cut(calls[d].fp) = Cut(f)

\* C5: with the cache cleared at arbitrary points a call never returns allow for
\* a fingerprint equal to the stored one, and the cache changes no result: a
\* call the local tier suppresses would have been suppressed by the persisted
\* tier as well, at once or as soon as the call it was absorbed for has landed
\* (dropping the cache only adds persisted-tier checks).
C5_CacheDropHarmless ==
    [][\A c \in CallIds :
         (calls[c].st # "done" /\ calls'[c].st = "done")
            => LET k == calls'[c].pair
                   f == calls'[c].fp
               IN /\ calls'[c].res = "allow" => rows[k].fp # Cut(f)
                  /\ calls'[c].res = "local"
                        => \/ PersistedOutcome(rows, k, f) = "suppress"
                           \/ SameInFlight(c, k, f)]_vars

\* ------------------------------------------------------------ the platform
\* The user changes the profile; nothing tells the bot.
Rename(u, prof) ==
    /\ identity[u] # prof
    /\ identity' = [identity EXCEPT ![u] = prof]
    /\ UNCHANGED <<now, rows, cache, member, events, snaps, ncache, wguard, hs,
                   scan, sent, welcomed, outage, pending>>
    /\ UNCHANGED <<known, active>>
    /\ UNCHANGED apart
    /\ UNCHANGED guardOnly

\* The user of a pair joins the chat: the platform sends a new-members message
\* and a chat_member update.
Join(k) ==
    /\ ~member[k]
    /\ events[k] = {}
    /\ \A h \in HandlerIds : hs[h].pc # "idle" /\ hs[h].pair = k
                                => hs[h].kind \notin {"nm", "cm"}
    /\ member' = [member EXCEPT ![k] = TRUE]
    /\ events' = [events EXCEPT ![k] = {"nm", "cm"}]
    /\ welcomed' = [welcomed EXCEPT ![k] = NoWelcome]
    /\ UNCHANGED <<now, rows, cache, identity, snaps, ncache, wguard, hs, scan,
                   sent, outage, pending>>
    /\ UNCHANGED <<known, active>>
    /\ UNCHANGED apart
    /\ UNCHANGED guardOnly

\* The user leaves without the bot being told (chat_member updates reach the
\* bot only where it may receive them).
Depart(k) ==
    /\ member[k]
    /\ events[k] = {}
    /\ member' = [member EXCEPT ![k] = FALSE]
    /\ UNCHANGED <<now, rows, cache, identity, events, snaps, ncache, wguard, hs,
                   scan, sent, welcomed, outage, pending>>
    /\ UNCHANGED <<known, active>>
    /\ UNCHANGED apart
    /\ UNCHANGED guardOnly

\* The outage is over.
EndOutage ==
    /\ outage
    /\ outage' = FALSE
    /\ UNCHANGED <<now, rows, cache, identity, member, events, snaps, ncache,
                   wguard, hs, scan, sent, welcomed, pending>>
    /\ UNCHANGED <<known, active>>
    /\ UNCHANGED apart
    /\ UNCHANGED guardOnly

\* ------------------------------------------------------------ announcements
\* context.bot.send_message of _announce_change_if_needed went through.
Delivered(k, fp) ==
    /\ sent' = [sent EXCEPT ![k] = [fp |-> fp, tog |-> 1 - sent[k].tog]]
    /\ pending' = [pending EXCEPT ![k] = IF pending[k] = fp THEN NoFp ELSE pending[k]]

\* --------------------------------------------------------------- the detector
\* on_any_message (on_any_update and the non-join path of
\* on_chat_member_update run the same lines): the throttle lets the event
\* through, the member row is touched and the baseline read.
on_any_message(h, p, k) ==
    /\ hs[h].pc = "idle"
    /\ member[k]
    /\ ~should_skip(ncache[p], UserOf(k), identity[UserOf(k)], now)
    /\ LET rs == add_or_touch_member(rows, k, now)
       IN /\ rows' = rs
          /\ hs' = [hs EXCEPT ![h] =
                [pc |-> "rec", kind |-> "msg", proc |-> p, pair |-> k,
                 prof |-> identity[UserOf(k)],
                 prev |-> prev_for_chat(snaps, UserOf(k),
                                        get_member_last_checked(rs, k),
                                        get_member_first_seen(rs, k))]]
    /\ UNCHANGED <<now, cache, identity, member, events, snaps, ncache, wguard,
                   scan, sent, welcomed, outage, pending>>
    /\ active' = [active EXCEPT ![k] = TRUE]
    /\ UNCHANGED known
    /\ table' = add_or_touch_row(table, k)
    /\ chats' = touch_chat(chats, ChatOf(k), now)
    /\ UNCHANGED <<writers, stamped, txt, pace, lru>>
    /\ UNCHANGED guardOnly

\* on_any_message for a message the throttle skips, in a chat none of whose
\* members is due: _opportunistic_scan_stale picks no pair and returns.
on_any_message_skipped(p, k) ==
    /\ member[k]
    /\ should_skip(ncache[p], UserOf(k), identity[UserOf(k)], now)
    /\ \A j \in Pairs : ChatOf(j) = ChatOf(k) => ~rows[j].present
    /\ active' = [active EXCEPT ![k] = TRUE]
    /\ UNCHANGED <<now, rows, cache, identity, member, events, snaps, ncache,
                   wguard, hs, scan, sent, welcomed, outage, pending, known>>
    /\ UNCHANGED apart
    /\ UNCHANGED guardOnly

\* record_user_snapshot, mark_checked, commit; then _update_cache, _diff_snap
\* and the local tier of the guard, which run without suspension.
HRecord(h) ==
    /\ hs[h].pc = "rec"
    /\ hs[h].kind = "msg"
    /\ LET k == hs[h].pair
           p == hs[h].proc
           u == UserOf(k)
           prof == hs[h].prof
           changes == diff_snap(hs[h].prev, Canon(prof))
           r == should_announce(cache[p], k, Fp(prof), now)
       IN /\ snaps' = record_user_snapshot(snaps, u, prof, now)
          /\ rows' = mark_checked(rows, k, now)
          /\ ncache' = [ncache EXCEPT ![p] = update_cache(ncache[p], u, prof, now)]
          /\ IF changes = << >>
             THEN /\ hs' = [hs EXCEPT ![h] = IdleH]
                  /\ UNCHANGED cache
             ELSE /\ cache' = [cache EXCEPT ![p] = r.store]
                  /\ hs' = [hs EXCEPT ![h] =
                               IF r.ok THEN [hs[h] EXCEPT !.pc = "t2"] ELSE IdleH]
    /\ UNCHANGED <<now, identity, member, events, wguard, scan, sent, welcomed,
                   outage, pending>>
    /\ known' = upsert_user(known, UserOf(hs[h].pair))
    /\ UNCHANGED active
    /\ UNCHANGED apart
    /\ UNCHANGED guardOnly

\* The persisted tier of the guard, and the commit.
HTier2(h) ==
    /\ hs[h].pc = "t2"
    /\ LET r == set_last_announced_fp(rows, hs[h].pair, Fp(hs[h].prof), now)
       IN /\ rows' = r.rows
          /\ hs' = [hs EXCEPT ![h] =
                       IF r.updated THEN [hs[h] EXCEPT !.pc = "send"] ELSE IdleH]
    /\ UNCHANGED <<now, cache, identity, member, events, snaps, ncache, wguard,
                   scan, sent, welcomed, outage, pending>>
    /\ UNCHANGED <<known, active>>
    /\ UNCHANGED apart
    /\ UNCHANGED guardOnly

\* The conditional UPDATE raises: the handler ends with the exception.
HTier2Fail(h) ==
    /\ outage
    /\ hs[h].pc = "t2"
    /\ hs' = [hs EXCEPT ![h] = IdleH]
    /\ pending' = [pending EXCEPT ![hs[h].pair] = Fp(hs[h].prof)]
    /\ UNCHANGED <<now, rows, cache, identity, member, events, snaps, ncache,
                   wguard, scan, sent, welcomed, outage>>
    /\ UNCHANGED <<known, active>>
    /\ UNCHANGED apart
    /\ UNCHANGED guardOnly

\* _announce_change_if_needed sends the announcement.
HSend(h) ==
    /\ hs[h].pc = "send"
    /\ Delivered(hs[h].pair, Fp(hs[h].prof))
    /\ hs' = [hs EXCEPT ![h] = IdleH]
    /\ UNCHANGED <<now, rows, cache, identity, member, events, snaps, ncache,
                   wguard, scan, welcomed, outage>>
    /\ UNCHANGED <<known, active>>
    /\ UNCHANGED apart
    /\ UNCHANGED guardOnly

\* A plausible slip: a failed send takes the fingerprint back, for the next
\* event to announce the change.
HSendFailUndo(h) ==
    /\ outage
    /\ hs[h].pc = "send"
    /\ hs' = [hs EXCEPT ![h] = IdleH]
    /\ rows' = [rows EXCEPT ![hs[h].pair].fp = NoFp]
    /\ pending' = [pending EXCEPT ![hs[h].pair] = Fp(hs[h].prof)]
    /\ UNCHANGED <<now, cache, identity, member, events, snaps, ncache,
                   wguard, scan, sent, welcomed, outage>>
    /\ UNCHANGED <<known, active>>
    /\ UNCHANGED apart
    /\ UNCHANGED guardOnly

\* send_message raises; _announce_change_if_needed logs and returns.
HSendFail(h) ==
    /\ outage
    /\ hs[h].pc = "send"
    /\ hs' = [hs EXCEPT ![h] = IdleH]
    /\ pending' = [pending EXCEPT ![hs[h].pair] = Fp(hs[h].prof)]
    /\ UNCHANGED <<now, rows, cache, identity, member, events, snaps, ncache,
                   wguard, scan, sent, welcomed, outage>>
    /\ UNCHANGED <<known, active>>
    /\ UNCHANGED apart
    /\ UNCHANGED guardOnly

\* ------------------------------------------------------ membership handlers
\* on_chat_member_update with status left or kicked: remove_member (the
\* mark_checked that follows finds no row).
on_chat_member_left(k) ==
    /\ member[k]
    /\ events[k] = {}
    /\ member' = [member EXCEPT ![k] = FALSE]
    /\ rows' = mark_checked(remove_member(rows, k), k, now)
    /\ UNCHANGED <<now, cache, identity, events, snaps, ncache, wguard, hs, scan,
                   sent, welcomed, outage, pending>>
    /\ UNCHANGED <<known, active>>
    /\ table' = remove_rows(table, k)
    /\ chats' = touch_chat(chats, ChatOf(k), now)
    /\ UNCHANGED <<writers, stamped, txt, pace, lru>>
    /\ UNCHANGED guardOnly

\* The welcome guard is asked by process p at the current time, with answer
\* ok: the call is noted for the pair with the mark the guard held for it, and
\* a pair whose first call went to p is crowded once p marks another pair.
WelcomeCall(k, p, ok) ==
    [j \in Pairs |->
        IF j = k
        THEN [welcomed[j] EXCEPT !.calls =
                 Append(@, [proc |-> p, at |-> now,
                            prior |-> WelcomeMark(cleanup(wguard[p], now, WelcomeTtl), k)])]
        ELSE IF ok /\ Len(welcomed[j].calls) = 1 /\ welcomed[j].calls[1].proc = p
             THEN [welcomed[j] EXCEPT !.crowded = TRUE]
             ELSE welcomed[j]]

\* on_new_members: touch_chat, then should_welcome for the new member.
on_new_members(h, p, k) ==
    /\ hs[h].pc = "idle"
    /\ "nm" \in events[k]
    /\ events' = [events EXCEPT ![k] = events[k] \ {"nm"}]
    /\ LET r == should_welcome(wguard[p], k, now)
       IN /\ wguard' = [wguard EXCEPT ![p] = r.store]
          /\ hs' = [hs EXCEPT ![h] =
                       IF r.ok
                       THEN [pc |-> "nmrec", kind |-> "nm", proc |-> p, pair |-> k,
                             prof |-> identity[UserOf(k)], prev |-> NoSnap]
                       ELSE IdleH]
    /\ welcomed' = WelcomeCall(k, p, should_welcome(wguard[p], k, now).ok)
    /\ UNCHANGED <<now, rows, cache, identity, member, snaps, ncache, scan, sent,
                   outage, pending>>
    /\ UNCHANGED <<known, active>>
    /\ chats' = touch_chat(chats, ChatOf(k), now)
    /\ UNCHANGED <<writers, stamped, txt, pace, lru>>
    /\ UNCHANGED table
    /\ UNCHANGED guardOnly

\* add_or_touch_member, record_user_snapshot, mark_checked, commit, _update_cache.
NMRecord(h) ==
    /\ hs[h].pc = "nmrec"
    /\ LET k == hs[h].pair
           p == hs[h].proc
           u == UserOf(k)
       IN /\ rows' = mark_checked(add_or_touch_member(rows, k, now), k, now)
          /\ snaps' = record_user_snapshot(snaps, u, hs[h].prof, now)
          /\ ncache' = [ncache EXCEPT ![p] = update_cache(ncache[p], u, hs[h].prof, now)]
    /\ hs' = [hs EXCEPT ![h].pc = "wsend"]
    /\ UNCHANGED <<now, cache, identity, member, events, wguard, scan, sent,
                   welcomed, outage, pending>>
    /\ known' = upsert_user(known, UserOf(hs[h].pair))
    /\ UNCHANGED active
    /\ table' = add_or_touch_row(table, hs[h].pair)
    /\ UNCHANGED aside
    /\ UNCHANGED guardOnly

\* on_chat_member_update for a transition from left or kicked to member: the
\* member row is touched and the baseline read.
on_chat_member_update(h, p, k) ==
    /\ hs[h].pc = "idle"
    /\ "cm" \in events[k]
    /\ events' = [events EXCEPT ![k] = events[k] \ {"cm"}]
    /\ LET rs == add_or_touch_member(rows, k, now)
       IN /\ rows' = rs
          /\ hs' = [hs EXCEPT ![h] =
                [pc |-> "cmrec", kind |-> "cm", proc |-> p, pair |-> k,
                 prof |-> identity[UserOf(k)],
                 prev |-> prev_for_chat(snaps, UserOf(k),
                                        get_member_last_checked(rs, k),
                                        get_member_first_seen(rs, k))]]
    /\ UNCHANGED <<now, cache, identity, member, snaps, ncache, wguard, scan,
                   sent, welcomed, outage, pending>>
    /\ UNCHANGED <<known, active>>
    /\ table' = add_or_touch_row(table, k)
    /\ chats' = touch_chat(chats, ChatOf(k), now)
    /\ UNCHANGED <<writers, stamped, txt, pace, lru>>
    /\ UNCHANGED guardOnly

\* A plausible slip: a join whose names differ from the baseline is led into
\* the guard like any other event.
CMRecordDiffs(h) ==
    /\ hs[h].pc = "cmrec"
    /\ LET k == hs[h].pair
           p == hs[h].proc
           r == should_welcome(wguard[p], k, now)
           g == should_announce(cache[p], k, Fp(hs[h].prof), now)
       IN /\ snaps' = record_user_snapshot(snaps, UserOf(k), hs[h].prof, now)
          /\ rows' = mark_checked(rows, k, now)
          /\ wguard' = [wguard EXCEPT ![p] = r.store]
          /\ welcomed' = WelcomeCall(k, p, r.ok)
          /\ cache' = IF diff_snap(hs[h].prev, Canon(hs[h].prof)) = << >>
                      THEN cache
                      ELSE [cache EXCEPT ![p] = g.store]
          /\ hs' = [hs EXCEPT ![h] =
                       IF r.ok THEN [hs[h] EXCEPT !.pc = "wsend"] ELSE IdleH]
    /\ UNCHANGED <<now, identity, member, events, ncache, scan, sent,
                   outage, pending>>
    /\ known' = upsert_user(known, UserOf(hs[h].pair))
    /\ UNCHANGED active
    /\ UNCHANGED apart
    /\ UNCHANGED guardOnly

\* record_user_snapshot, mark_checked, commit; then should_welcome (just_joined).
CMRecord(h) ==
    /\ hs[h].pc = "cmrec"
    /\ LET k == hs[h].pair
           p == hs[h].proc
           r == should_welcome(wguard[p], k, now)
       IN /\ snaps' = record_user_snapshot(snaps, UserOf(k), hs[h].prof, now)
          /\ rows' = mark_checked(rows, k, now)
          /\ wguard' = [wguard EXCEPT ![p] = r.store]
          /\ welcomed' = WelcomeCall(k, p, r.ok)
          /\ hs' = [hs EXCEPT ![h] =
                       IF r.ok THEN [hs[h] EXCEPT !.pc = "wsend"] ELSE IdleH]
    /\ UNCHANGED <<now, cache, identity, member, events, ncache, scan, sent,
                   outage, pending>>
    /\ known' = upsert_user(known, UserOf(hs[h].pair))
    /\ UNCHANGED active
    /\ UNCHANGED apart
    /\ UNCHANGED guardOnly

\* The welcome message is sent.
WSend(h) ==
    /\ hs[h].pc = "wsend"
    /\ welcomed' = [welcomed EXCEPT ![hs[h].pair].n = @ + 1]
    /\ hs' = [hs EXCEPT ![h] = IdleH]
    /\ UNCHANGED <<now, rows, cache, identity, member, events, snaps, ncache,
                   wguard, scan, sent, outage, pending>>
    /\ UNCHANGED <<known, active>>
    /\ UNCHANGED apart
    /\ UNCHANGED guardOnly

\* --------------------------------------------------------------- the scanner
\* retry_after values the platform may send, and values of retry_leeway.
RetryAfters == {0, 2}
Leeways == {-1, 1}
\* "bot": the fetch succeeds and the member it returns has no user, or a bot.
Outcomes == {"ok", "retry", "forbidden", "badrequest", "error", "left", "bot"}

\* The pairs that occur in a queue.
PairsOf(queue) == {queue[i].pair : i \in 1..Len(queue)}

RECURSIVE ToSeq(_, _)
ToSeq(f, n) == IF n = 0 THEN << >> ELSE Append(ToSeq(f, n - 1), f[n])

\* wait_s = max(1, int(retry_after)) + max(0, retry_leeway)
wait_s(retry_after, retry_leeway) ==
    (IF retry_after < 1 THEN 1 ELSE retry_after)
        + (IF retry_leeway < 0 THEN 0 ELSE retry_leeway)

\* A plausible slip: the pair goes back to the front of what is left.
requeue_front(rest, cur) == <<cur>> \o rest

\* pairs.append((chat_id, user_id, last_checked_at))
requeue(rest, cur) == Append(rest, cur)

\* The ticks started so far, counted up to MaxTicks.
Counted(n) == IF n < MaxTicks THEN n + 1 ELSE n

\* A plausible slip: every failed fetch but the rate-limited one marks the
\* pair verified.
fetch_branch_marks(rs, k, o, t) ==
    CASE o = "forbidden" -> prune_chat_members_for_chat(rs, ChatOf(k))
      [] o = "left" -> mark_checked(remove_member(rs, k), k, t)
      [] OTHER -> mark_checked(rs, k, t)

\* A plausible slip: a member without a user, or a bot, is dropped like one
\* that has left.
fetch_branch_drops(rs, k, o, t) ==
    CASE o = "forbidden" -> prune_chat_members_for_chat(rs, ChatOf(k))
      [] o = "badrequest" -> mark_checked(rs, k, t)
      [] o \in {"left", "bot"} -> mark_checked(remove_member(rs, k), k, t)
      [] OTHER -> rs

\* chat_members after a fetch that does not lead to the snapshot step: the
\* except clauses of the fetch, the left/kicked branch and the bot branch.
fetch_branch(rs, k, o, t) ==
    CASE o = "forbidden" -> prune_chat_members_for_chat(rs, ChatOf(k))
      [] o = "badrequest" -> mark_checked(rs, k, t)
      [] o = "left" -> mark_checked(remove_member(rs, k), k, t)
      [] o = "bot" -> mark_checked(rs, k, t)
      [] OTHER -> rs

\* _scan_tick starts with batch_size = limit in its job data:
\* pick_members_for_scan, with a non-empty result.
ScanPickOf(p, l, limit) ==
    /\ scan.pc = "idle"
    /\ \E q \in pick_members_for_scan(rows, limit) :
          /\ DOMAIN q # {}
          /\ LET n == Cardinality(DOMAIN q)
                 pairs == ToSeq([i \in 1..n |->
                                   [pair |-> q[i],
                                    cutoff |-> get_member_last_checked(rows, q[i])]], n)
             IN scan' = [IdleScan EXCEPT !.pc = "loop", !.ticks = Counted(scan.ticks),
                                         !.proc = p, !.leeway = l,
                                         !.batch_size = limit,
                                         !.batch = ToSeq(q, n), !.queue = pairs]
    /\ UNCHANGED <<now, rows, cache, identity, member, events, snaps, ncache,
                   wguard, hs, sent, welcomed, outage, pending>>
    /\ UNCHANGED <<known, active>>
    /\ UNCHANGED apart
    /\ UNCHANGED guardOnly

\* The tick of the configured scanner.
ScanPick(p, l) == ScanPickOf(p, l, BatchSize)

\* The next pair is taken and get_chat_member answers with outcome o (and
\* retry_after n); every branch but the successful one is finished here.
ScanFetch(o, n) ==
    /\ scan.pc = "loop"
    /\ scan.queue # << >>
    /\ o = "retry" \/ n = 0
    /\ o # "forbidden" => UNCHANGED chats
    /\ LET cur == Head(scan.queue)
           k == cur.pair
           rest == Tail(scan.queue)
           fetched == [q \in Pairs |-> scan.owed[q] \ {k}]
           next == [scan EXCEPT !.cur = cur, !.queue = rest, !.prof = NoProf,
                                !.diffs = << >>, !.res = "none", !.nsent = 0,
                                !.out = o, !.retry = 0, !.wait = 0,
                                !.handled = IF o = "retry" THEN scan.handled
                                            ELSE Append(scan.handled, k),
                                !.limited = IF o = "retry" THEN scan.limited \cup {k}
                                            ELSE scan.limited,
                                !.awaiting = IF o = "retry" THEN scan.awaiting \cup {k}
                                             ELSE scan.awaiting \ {k},
                                !.owed = IF o = "retry"
                                         THEN [fetched EXCEPT ![k] = PairsOf(rest)]
                                         ELSE fetched]
       IN CASE o = "retry" ->
                  /\ scan' = [next EXCEPT !.queue = requeue(rest, cur), !.retry = n,
                                          !.wait = wait_s(n, scan.leeway)]
                  /\ UNCHANGED <<rows, table>>
            [] o = "forbidden" ->
                  /\ scan' = next
                  /\ rows' = fetch_branch(rows, k, o, now)
                  /\ table' = prune_rows(table, ChatOf(k))
                  /\ chats' = mark_chat_inactive(chats, ChatOf(k), now)
            [] o \in {"badrequest", "error"} ->
                  /\ scan' = next
                  /\ rows' = fetch_branch(rows, k, o, now)
                  /\ UNCHANGED table
            [] o = "left" ->
                  /\ ~member[k]
                  /\ scan' = next
                  /\ rows' = fetch_branch(rows, k, o, now)
                  /\ table' = remove_rows(table, k)
            [] o = "bot" ->
                  /\ member[k]
                  /\ scan' = next
                  /\ rows' = fetch_branch(rows, k, o, now)
                  /\ UNCHANGED table
            [] o = "ok" ->
                  /\ member[k]
                  /\ scan' = [next EXCEPT !.pc = "session",
                                          !.prof = identity[UserOf(k)]]
                  /\ UNCHANGED <<rows, table>>
    /\ UNCHANGED <<now, cache, identity, member, events, snaps, ncache, wguard,
                   hs, sent, welcomed, outage, pending>>
    /\ UNCHANGED <<known, active>>
    /\ UNCHANGED <<writers, stamped, txt, pace, lru>>
    /\ UNCHANGED guardOnly

\* The successful branch: baseline lookup, record_user_snapshot, mark_checked,
\* commit; then the diff and the local tier of the guard.
ScanSession ==
    /\ scan.pc = "session"
    /\ LET k == scan.cur.pair
           u == UserOf(k)
           p == scan.proc
           prev == prev_for_chat(snaps, u, scan.cur.cutoff,
                                 get_member_first_seen(rows, k))
           diffs == diff_snap(prev, Canon(scan.prof))
           r == should_announce(cache[p], k, Fp(scan.prof), now)
       IN /\ snaps' = record_user_snapshot(snaps, u, scan.prof, now)
          /\ rows' = mark_checked(rows, k, now)
          /\ IF diffs = << >>
             THEN /\ scan' = [scan EXCEPT !.pc = "loop", !.res = "nodiff"]
                  /\ UNCHANGED cache
             ELSE /\ cache' = [cache EXCEPT ![p] = r.store]
                  /\ scan' = [scan EXCEPT !.diffs = diffs,
                                          !.pc = IF r.ok THEN "t2" ELSE "loop",
                                          !.res = IF r.ok THEN "none" ELSE "local"]
    /\ UNCHANGED <<now, identity, member, events, ncache, wguard, hs, sent,
                   welcomed, outage, pending>>
    /\ known' = upsert_user(known, UserOf(scan.cur.pair))
    /\ UNCHANGED active
    /\ UNCHANGED apart
    /\ UNCHANGED guardOnly

\* The persisted tier of the guard, and the commit.
ScanTier2 ==
    /\ scan.pc = "t2"
    /\ LET r == set_last_announced_fp(rows, scan.cur.pair, Fp(scan.prof), now)
       IN /\ rows' = r.rows
          /\ scan' = [scan EXCEPT !.pc = IF r.updated THEN "send" ELSE "loop",
                                  !.res = IF r.updated THEN "allow" ELSE "suppress"]
    /\ UNCHANGED <<now, cache, identity, member, events, snaps, ncache, wguard,
                   hs, sent, welcomed, outage, pending>>
    /\ UNCHANGED <<known, active>>
    /\ UNCHANGED apart
    /\ UNCHANGED guardOnly

\* The conditional UPDATE raises outside any try: the tick ends there.
ScanTier2Fail ==
    /\ outage
    /\ scan.pc = "t2"
    /\ scan' = [IdleScan EXCEPT !.ticks = scan.ticks]
    /\ pending' = [pending EXCEPT ![scan.cur.pair] = Fp(scan.prof)]
    /\ UNCHANGED <<now, rows, cache, identity, member, events, snaps, ncache,
                   wguard, hs, sent, welcomed, outage>>
    /\ UNCHANGED <<known, active>>
    /\ UNCHANGED apart
    /\ UNCHANGED guardOnly

\* _announce_change_if_needed sends the announcement.
ScanSend ==
    /\ scan.pc = "send"
    /\ Delivered(scan.cur.pair, Fp(scan.prof))
    /\ scan' = [scan EXCEPT !.pc = "loop", !.nsent = scan.nsent + 1]
    /\ UNCHANGED <<now, rows, cache, identity, member, events, snaps, ncache,
                   wguard, hs, welcomed, outage>>
    /\ UNCHANGED <<known, active>>
    /\ UNCHANGED apart
    /\ UNCHANGED guardOnly

\* send_message raises; the failure is logged and the loop goes on.
ScanSendFail ==
    /\ outage
    /\ scan.pc = "send"
    /\ scan' = [scan EXCEPT !.pc = "loop", !.res = "sendfail"]
    /\ pending' = [pending EXCEPT ![scan.cur.pair] = Fp(scan.prof)]
    /\ UNCHANGED <<now, rows, cache, identity, member, events, snaps, ncache,
                   wguard, hs, sent, welcomed, outage>>
    /\ UNCHANGED <<known, active>>
    /\ UNCHANGED apart
    /\ UNCHANGED guardOnly

\* idx has reached len(pairs): the tick returns.
ScanReturn ==
    /\ scan.pc = "loop"
    /\ scan.queue = << >>
    /\ scan' = [IdleScan EXCEPT !.ticks = scan.ticks]
    /\ UNCHANGED <<now, rows, cache, identity, member, events, snaps, ncache,
                   wguard, hs, sent, welcomed, outage, pending>>
    /\ UNCHANGED <<known, active>>
    /\ UNCHANGED apart
    /\ UNCHANGED guardOnly

\* ------------------------------------------------------- the bot's presence
\* The statuses a my_chat_member update reports for the bot.
BotStatuses == {"member", "administrator", "restricted", "left", "kicked"}

RECURSIVE seed_admins(_, _, _, _)
\* The loop of _handle_bot_join over the administrators: add_or_touch_member,
\* record_user_snapshot, mark_checked for each, in the order of the answer.
seed_admins(st, adm, ident, t) ==
    IF adm = << >> THEN st
    ELSE LET k == Head(adm)
         IN seed_admins(
               [rows |-> mark_checked(add_or_touch_member(st.rows, k, t), k, t),
                snaps |-> record_user_snapshot(st.snaps, UserOf(k), ident[UserOf(k)], t),
                known |-> upsert_user(st.known, UserOf(k)),
                table |-> add_or_touch_row(st.table, k)],
               Tail(adm), ident, t)

\* What get_chat_administrators may answer for chat c: some of its members, in
\* some order (nothing when the call raises, as after the bot was removed).
AdminLists(c) ==
    LET ms == {k \in Pairs : ChatOf(k) = c /\ member[k]}
    IN {<< >>} \cup {<<k>> : k \in ms}
               \cup {<<j, k>> : <<j, k>> \in {x \in ms \X ms : x[1] # x[2]}}

\* _handle_bot_join: a my_chat_member update with the bot's new status in chat
\* c. set_bot_presence, then the administrators are seeded (the language
\* prompt that follows a join writes nothing).
handle_bot_join(c, status, adm) ==
    /\ adm \in AdminLists(c)
    /\ chats' = set_bot_presence(chats, c, status, now)
    /\ LET st == seed_admins([rows |-> rows, snaps |-> snaps, known |-> known,
                              table |-> table], adm, identity, now)
       IN /\ rows' = st.rows
          /\ snaps' = st.snaps
          /\ known' = st.known
          /\ table' = st.table
    /\ UNCHANGED <<now, cache, identity, member, events, ncache, wguard, hs, scan,
                   sent, welcomed, outage, pending, active>>
    /\ UNCHANGED <<writers, stamped, txt, pace, lru>>
    /\ UNCHANGED guardOnly

\* cmd_setlang and on_setlang_callback, once the admin gate and the code check
\* are passed: set_chat_language.
cmd_setlang(c, code) ==
    /\ chats' = set_chat_language(chats, c, code, now)
    /\ UNCHANGED <<now, rows, cache, identity, member, events, snaps, ncache,
                   wguard, hs, scan, sent, welcomed, outage, pending, known,
                   active, table>>
    /\ UNCHANGED <<writers, stamped, txt, pace, lru>>
    /\ UNCHANGED guardOnly

\* ------------------------------------------------------------ the mini-scan
\* _OPPORTUNISTIC_SCAN_LIMIT
OpportunisticScanLimit == 3

\* SELECT ... FROM chat_members WHERE chat_id = :cid ORDER BY last_checked_at
\* ASC, last_seen_at DESC LIMIT :lim
pick_stale_members_for_chat(rs, c, limit) ==
    pick_members_for_scan([k \in Pairs |-> IF ChatOf(k) = c THEN rs[k] ELSE NoRow],
                          limit)

\* chat_members after a fetch of the mini-scan that does not lead to the
\* snapshot step: Forbidden, BadRequest, RetryAfter, another error, and a
\* member without user or a bot.
opportunistic_branch(rs, k, o, t) ==
    CASE o = "forbidden" -> mark_checked(remove_member(rs, k), k, t)
      [] o = "badrequest" -> mark_checked(rs, k, t)
      [] o = "bot" -> mark_checked(rs, k, t)
      [] OTHER -> rs

\* on_any_message (on_any_update has the same lines) for an event of pair k
\* the throttle skips: _opportunistic_scan_stale picks the members of the chat
\* least recently verified, and its loop starts.
opportunistic_scan_stale(p, k) ==
    /\ member[k]
    /\ should_skip(ncache[p], UserOf(k), identity[UserOf(k)], now)
    /\ scan.pc = "idle"
    /\ \E q \in pick_stale_members_for_chat(rows, ChatOf(k), OpportunisticScanLimit) :
          /\ DOMAIN q # {}
          /\ LET n == Cardinality(DOMAIN q)
                 pairs == ToSeq([i \in 1..n |->
                                   [pair |-> q[i],
                                    cutoff |-> get_member_last_checked(rows, q[i])]], n)
             IN scan' = [IdleScan EXCEPT !.pc = "loop", !.ticks = scan.ticks,
                                         !.proc = p, !.trigger = k,
                                         !.batch_size = OpportunisticScanLimit,
                                         !.batch = ToSeq(q, n), !.queue = pairs]
    /\ active' = [active EXCEPT ![k] = TRUE]
    /\ UNCHANGED <<now, rows, cache, identity, member, events, snaps, ncache,
                   wguard, hs, sent, welcomed, outage, pending, known>>
    /\ UNCHANGED apart
    /\ UNCHANGED guardOnly

\* The mini-scan takes its next pair and get_chat_member answers with outcome
\* o. No status is looked at: a member that has left is dealt with like one
\* that is present. A rate-limited pair is dropped.
MiniFetch(o) ==
    /\ scan.pc = "loop"
    /\ scan.trigger # 0
    /\ scan.queue # << >>
    /\ LET cur == Head(scan.queue)
           k == cur.pair
           next == [scan EXCEPT !.cur = cur, !.queue = Tail(scan.queue),
                                !.prof = NoProf, !.diffs = << >>, !.res = "none",
                                !.nsent = 0, !.out = o,
                                !.handled = Append(scan.handled, k)]
       IN IF o \in {"ok", "left"}
          THEN /\ member[k] <=> o = "ok"
               /\ scan' = [next EXCEPT !.pc = "session", !.prof = identity[UserOf(k)]]
               /\ UNCHANGED <<rows, table>>
          ELSE /\ scan' = next
               /\ rows' = opportunistic_branch(rows, k, o, now)
               /\ table' = IF o = "forbidden" THEN remove_rows(table, k) ELSE table
    /\ UNCHANGED <<now, cache, identity, member, events, snaps, ncache, wguard,
                   hs, sent, welcomed, outage, pending>>
    /\ UNCHANGED <<known, active>>
    /\ UNCHANGED aside
    /\ UNCHANGED guardOnly

\* ------------------------------------------------------------ specifications
\* The state after the pairs ks were each observed once, at time 1, their
\* users showing the profile prof.
ObservedAs(ks, prof) ==
    /\ now = 1
    /\ rows = [k \in Pairs |->
                 IF k \in ks
                 THEN [present |-> TRUE, first_seen |-> 1, last_seen |-> 1,
                       last_checked |-> 1, fp |-> NoFp]
                 ELSE NoRow]
    /\ identity = [u \in Users |-> prof]
    /\ member = [k \in Pairs |-> k \in ks]
    /\ snaps = [u \in Users |->
                  IF \E k \in ks : UserOf(k) = u
                  THEN {[fn |-> Take(Canon(prof)[1], 64), ln |-> Take(Canon(prof)[2], 64),
                         un |-> Take(Canon(prof)[3], 32), seen_at |-> 1, id |-> u]}
                  ELSE {}]
    /\ cache = [p \in Procs |-> << >>]
    /\ events = [k \in Pairs |-> {}]
    /\ ncache = [p \in Procs |-> [u \in Users |-> NoName]]
    /\ wguard = [p \in Procs |-> << >>]
    /\ hs = [h \in HandlerIds |-> IdleH]
    /\ scan = IdleScan
    /\ sent = [k \in Pairs |-> NoSent]
    /\ welcomed = [k \in Pairs |-> NoWelcome]
    /\ pending = [k \in Pairs |-> NoFp]
    /\ calls = [c \in CallIds |-> IdleCall]
    /\ scen = FreeScen
    /\ known = {UserOf(k) : k \in ks}
    /\ active = [k \in Pairs |-> k \in ks]
    /\ ImportIdle
    /\ txt = NoText

Observed(ks) == ObservedAs(ks, PA)

\* The scanner alone: three pairs, no live activity.
ScanInit == Observed(Pairs) /\ outage = FALSE

ScanStep ==
    \/ scan.ticks < MaxTicks /\ \E l \in Leeways : ScanPick(1, l)
    \/ \E o \in Outcomes, n \in RetryAfters : ScanFetch(o, n)
    \/ ScanSession
    \/ ScanTier2
    \/ ScanSend
    \/ ScanReturn

ScanNext ==
    \/ Tick
    \/ \E prof \in {PA, PC} : Rename(1, prof)
    \/ Depart(2)
    \/ ScanStep

SpecScan == ScanInit /\ [][ScanNext]_vars

\* A rename that happens before the tick starts.
RenameBefore ==
    /\ scan.pc = "idle"
    /\ \E prof \in {PA, PC} : Rename(1, prof)

ScanFairNext ==
    \/ RenameBefore
    \/ ScanStep

\* One tick, its task scheduled as long as it has a step to take.
SpecScanFair == ScanInit /\ [][ScanFairNext]_vars /\ WF_vars(ScanStep)

\* --------------------------------------------------- claims on the scanner
\* The newest row of user u seen at or before time t, read off the store.
LatestUpTo(u, t) ==
    LET c == {r \in snaps[u] : r.seen_at <= t}
        newest == {r \in c : \A q \in c : <<q.seen_at, q.id>> = <<r.seen_at, r.id>>
                                          \/ q.seen_at < r.seen_at
                                          \/ (q.seen_at = r.seen_at /\ q.id < r.id)}
    IN IF c = {} THEN NoSnap ELSE CHOOSE r \in newest : TRUE

\* The baseline of a pair: as of its watermark, or failing that as of its
\* first-seen time.
BaselineOf(k) ==
    IF LatestUpTo(UserOf(k), rows[k].last_checked) # NoSnap
    THEN LatestUpTo(UserOf(k), rows[k].last_checked)
    ELSE LatestUpTo(UserOf(k), rows[k].first_seen)

Fields(r) == <<r.fn, r.ln, r.un>>
FieldNames == <<"first", "last", "username">>
Differing(old, cur) == {i \in 1..3 : old[i] # cur[i]}

\* C7: a scan tick that fetches, with no live activity, a profile whose
\* canonical fields differ from the pair's baseline snapshot (as of the
\* watermark, else as of first-seen) records the new snapshot, advances the
\* watermark, computes exactly one (field, old, new) entry per differing field
\* and consults the guard; when the guard allows, the tick sends exactly one
\* announcement for the pair and moves on.
C7_SilentRename ==
    [][/\ (scan.pc = "session" /\ scan' # scan) =>
            LET k == scan.cur.pair
                cur == Canon(scan.prof)
                old == Fields(BaselineOf(k))
            IN (rows[k].present /\ BaselineOf(k) # NoSnap /\ old # cur) =>
                  /\ \E r \in snaps'[UserOf(k)] : Fields(r) = cur /\ r.seen_at = now
                  /\ rows'[k].last_checked = now
                  /\ Len(scan'.diffs) = Cardinality(Differing(old, cur))
                  /\ \A i \in Differing(old, cur) :
                        \E j \in 1..Len(scan'.diffs) :
                            scan'.diffs[j] = <<FieldNames[i], old[i], cur[i]>>
                  /\ scan'.pc = "t2" \/ scan'.res = "local"
       /\ (scan.pc = "t2" /\ scan' # scan) =>
            (scan'.pc = "send" <=> scan'.res = "allow")
       /\ (scan.pc = "send" /\ scan' # scan) =>
            /\ sent'[scan.cur.pair] = [fp |-> Fp(scan.prof),
                                       tog |-> 1 - sent[scan.cur.pair].tog]
            /\ scan'.nsent = 1
            /\ scan'.pc = "loop"]_vars

\* C7's case: the tick has announced a rename that changed two fields.
C7_Witness ==
    /\ scan.pc = "loop"
    /\ scan.res = "allow"
    /\ scan.nsent = 1
    /\ Len(scan.diffs) = 2
    /\ sent[scan.cur.pair].fp = Fp(scan.prof)

\* The position of a pair in the batch the tick picked.
BatchPos(k) == CHOOSE i \in 1..Len(scan.batch) : scan.batch[i] = k

\* The pairs of the tick in the order they were or will be dealt with.
Dealt == scan.handled \o [i \in 1..Len(scan.queue) |-> scan.queue[i].pair]

\* C9: a fetch answered with RetryAfter N makes the tick sleep at least
\* N + leeway seconds and append the pair to the end of the batch, touching
\* nothing else; the pair stays queued until it is fetched again, which happens
\* only after every pair that was queued behind it has been fetched; and every
\* pair of the batch is dealt with exactly once, the pairs that were never
\* rate-limited in the order of the batch.
C9_RateLimitRequeue ==
    /\ [][(scan.pc = "loop" /\ scan'.pc # "idle" /\ scan' # scan) =>
            /\ scan'.out = "retry" =>
                  /\ scan'.wait >= scan'.retry + scan.leeway
                  /\ scan'.queue = Append(Tail(scan.queue), Head(scan.queue))
                  /\ rows' = rows /\ snaps' = snaps /\ sent' = sent /\ cache' = cache
            /\ Head(scan.queue).pair \in scan.awaiting
                  => scan.owed[Head(scan.queue).pair] = {}]_vars
    /\ [](scan.pc # "idle" =>
            /\ \A k \in scan.awaiting : k \in PairsOf(scan.queue)
            /\ Len(Dealt) = Len(scan.batch)
            /\ \A i \in 1..Len(scan.batch) :
                  \E j \in 1..Len(Dealt) : Dealt[j] = scan.batch[i]
            /\ \A i, j \in 1..Len(Dealt) :
                  (i < j /\ Dealt[i] \notin scan.limited /\ Dealt[j] \notin scan.limited)
                      => BatchPos(Dealt[i]) < BatchPos(Dealt[j]))

\* C9's case: the tick is through its batch of three, the pair it dealt with
\* last had been rate-limited and was not the last of the batch.
C9_Witness ==
    /\ scan.pc = "loop"
    /\ scan.queue = << >>
    /\ Len(scan.batch) = 3
    /\ Len(scan.handled) = 3
    /\ scan.handled[3] \in scan.limited
    /\ scan.handled[3] # scan.batch[3]

\* C10: a tick that has picked its batch returns, whatever the platform
\* answers to the fetches.
C10_TickReturns == (scan.pc = "loop") ~> (scan.pc = "idle")

\* ------------------------------------------------------------------- joins
\* User 1 joins and leaves chat 1, either process taking its updates; user 2
\* joins the chat once, process 1 taking its updates.
WelcomePairs == {1, 2}

WelcomeInit == Observed({}) /\ outage = FALSE

WelcomeNext ==
    \/ Tick
    \/ \E k \in WelcomePairs : Join(k)
    \/ on_chat_member_left(1)
    \/ \E h \in HandlerIds, p \in Procs : on_new_members(h, p, 1)
    \/ on_new_members(1, 1, 2)
    \/ \E h \in HandlerIds : NMRecord(h)
    \/ \E h \in HandlerIds, p \in Procs : on_chat_member_update(h, p, 1)
    \/ on_chat_member_update(1, 1, 2)
    \/ \E h \in HandlerIds : CMRecord(h)
    \/ \E h \in HandlerIds : WSend(h)

SpecWelcome == WelcomeInit /\ [][WelcomeNext]_vars

\* Both join events of the pair's latest join have been handled to the end.
JoinHandled(k) ==
    /\ Len(welcomed[k].calls) = 2
    /\ \A h \in HandlerIds : hs[h].pc = "idle" \/ hs[h].pair # k

\* The two handlers asked the welcome guard less than the TTL apart.
WithinTtl(k) == welcomed[k].calls[2].at - welcomed[k].calls[1].at < WelcomeTtl

\* The first of the two calls found no mark younger than the TTL for the pair.
FirstUnmarked(k) ==
    LET c == welcomed[k].calls[1]
    IN c.prior = 0 \/ c.at - c.prior >= WelcomeTtl

SysInit == Observed({1}) /\ outage = FALSE

SysNext ==
    \/ Tick
    \/ \E prof \in {PA, PB} : Rename(1, prof)
    \/ \E h \in HandlerIds : on_any_message(h, 1, 1)
    \/ \E h \in HandlerIds : HRecord(h)
    \/ \E h \in HandlerIds : HTier2(h)
    \/ \E h \in HandlerIds : HSend(h)
    \/ scan.ticks < MaxTicks /\ ScanPick(1, 1)
    \/ ScanFetch("ok", 0)
    \/ ScanSession
    \/ ScanTier2
    \/ ScanSend
    \/ ScanReturn

SpecSys == SysInit /\ [][SysNext]_vars

\* C1: under any interleaving of the handlers and the scanner on one pair, no
\* identity value is announced to the chat twice without a different identity
\* having been announced in between.
C1_NoDuplicateAnnouncement ==
    [][\A k \in Pairs : sent'[k] # sent[k] => sent'[k].fp # sent[k].fp]_vars

\* ------------------------------------------------------------- the outage
\* One pair during and after an outage of the store and of the platform:
\* renames, messages and scanner passes that go on for ever.
OutageInit == Observed({1}) /\ outage = TRUE

Pass ==
    \/ ScanPick(1, 1)
    \/ ScanFetch("ok", 0)
    \/ ScanSession
    \/ ScanTier2
    \/ ScanTier2Fail
    \/ ScanSend
    \/ ScanSendFail
    \/ ScanReturn

Detect ==
    \/ on_any_message(1, 1, 1)
    \/ HRecord(1)
    \/ HTier2(1)
    \/ HTier2Fail(1)
    \/ HSend(1)
    \/ HSendFail(1)

OutageNext ==
    \/ Tick
    \/ \E prof \in {PA, PB} : Rename(1, prof)
    \/ EndOutage
    \/ Detect
    \/ Pass

\* The outage ends, and the scanner and a handler that has started are
\* scheduled as long as they have a step to take.
SpecOutage ==
    /\ OutageInit
    /\ [][OutageNext]_vars
    /\ WF_vars(EndOutage)
    /\ WF_vars(Pass)
    /\ WF_vars(HRecord(1) \/ HTier2(1) \/ HSend(1))

\* C6: a change whose announcement failed (the persisted update of the guard
\* or the send raised) is, once the outage is over, eventually announced by a
\* later pass, unless the identity has changed again.
C6_NotLostForever ==
    (pending[1] # NoFp /\ ~outage)
        ~> (pending[1] = NoFp \/ Fp(identity[1]) # pending[1])

\* ------------------------------------------------------------- the history
\* Timestamps an imported snapshot may carry; 0 stands for an empty seen_at.
MaxStamp == 3
\* Snapshots one import request may carry.
MaxItems == 2

\* The items of import requests: a profile and its seen_at.
Items(profs, stamps) == {[prof |-> q, seen_at |-> t] : q \in profs, t \in stamps}

\* The lists of at most MaxItems items.
Batches(items) ==
    UNION {[1..n -> items] : n \in 0..MaxItems}

\* The time an item is stored with: seen_at_override, or UTC_TIMESTAMP().
StoredAt(it) == IF it.seen_at = 0 THEN now ELSE it.seen_at

\* The note that tuple c of a user was recorded with time t: the latest time
\* so far and the time of the last recording.
Stamp(st, c, t) ==
    IF \E e \in st : e.name = c
    THEN {IF e.name = c THEN [name |-> c, at |-> IF e.at < t THEN t ELSE e.at, last |-> t]
                        ELSE e : e \in st}
    ELSE st \cup {[name |-> c, at |-> t, last |-> t]}

\* import_history: upsert_user, and bulk_import_history is entered with the
\* items of the request.
BeginImport(w, u, items) ==
    /\ writers[w].items = << >>
    /\ writers' = [writers EXCEPT ![w] = [user |-> u, items |-> items]]
    /\ known' = upsert_user(known, u)
    /\ UNCHANGED <<now, rows, cache, identity, member, events, snaps, ncache,
                   wguard, hs, scan, sent, welcomed, outage, pending, active,
                   stamped, txt, table, chats, pace, lru>>
    /\ UNCHANGED guardOnly

\* bulk_import_history issues the insert of its next item (the commit follows
\* the last one).
ImportStep(w) ==
    /\ writers[w].items # << >>
    /\ LET it == Head(writers[w].items)
           u == writers[w].user
       IN /\ snaps' = insert_name_snapshot_if_new(snaps, u, it.prof[1], it.prof[2],
                                                   it.prof[3], StoredAt(it))
          /\ stamped' = [stamped EXCEPT ![u] = Stamp(@, Canon(it.prof), StoredAt(it))]
    /\ writers' = [writers EXCEPT ![w].items = Tail(@)]
    /\ UNCHANGED <<now, rows, cache, identity, member, events, ncache, wguard, hs,
                   scan, sent, welcomed, outage, pending, known, active, txt,
                   table, chats, pace, lru>>
    /\ UNCHANGED guardOnly

\* An empty store.
StoreInit ==
    /\ now = 1
    /\ rows = [k \in Pairs |-> NoRow]
    /\ cache = [p \in Procs |-> << >>]
    /\ calls = [c \in CallIds |-> IdleCall]
    /\ scen = FreeScen
    /\ SysIdle

\* One import request at a time: any profiles and times for user 1, no
\* snapshot for user 2.
StoreNext ==
    \/ \E items \in Batches(Items({PA, PB, PC}, 0..MaxStamp)) :
          BeginImport(1, 1, items)
    \/ BeginImport(1, 2, << >>)
    \/ ImportStep(1)

SpecStore == StoreInit /\ [][StoreNext]_vars

\* Two import requests for user 1 whose inserts interleave.
RaceNext ==
    \/ \E w \in Writers, items \in Batches(Items({PA, PZ, PB}, 1..(MaxStamp - 1))) :
          BeginImport(w, 1, items)
    \/ \E w \in Writers : ImportStep(w)

SpecStoreRace == StoreInit /\ [][RaceNext]_vars

\* The rows of user u that hold the canonical tuple c.
RowsOf(sn, u, c) == {r \in sn[u] : Fields(r) = c}

\* C11: recording a canonical tuple of a user that is already stored, with
\* another timestamp, leaves exactly one row for the tuple, the same row,
\* timestamped at the later of the two times; a first recording stores one row
\* with the time given.
C11_SnapshotDedup ==
    [][\A w \in Writers :
          (writers[w].items # << >> /\ writers'[w].items = Tail(writers[w].items)) =>
              LET it == Head(writers[w].items)
                  u == writers[w].user
                  c == Canon(it.prof)
                  old == RowsOf(snaps, u, c)
                  new == RowsOf(snaps', u, c)
              IN /\ Cardinality(new) = 1
                 /\ \A r \in new :
                       IF old = {}
                       THEN r.seen_at = StoredAt(it)
                       ELSE \A q \in old :
                               /\ r.id = q.id
                               /\ r.seen_at >= q.seen_at
                               /\ r.seen_at >= StoredAt(it)
                               /\ r.seen_at \in {q.seen_at, StoredAt(it)}]_vars

\* C11's case: a tuple was last recorded with an earlier time than the one its
\* single row carries.
C11_Witness ==
    \E e \in stamped[1] :
        /\ e.last < e.at
        /\ Cardinality(RowsOf(snaps, 1, e.name)) = 1
        /\ \A r \in RowsOf(snaps, 1, e.name) : r.seen_at = e.at

\* C12: whatever the order in which the inserts of concurrent import requests
\* are executed, the store holds one row per canonical tuple recorded, with
\* the latest time the tuple was recorded with, and no other row.
C12_InsertsCommute ==
    \A u \in Users :
        /\ {<<Fields(r), r.seen_at>> : r \in snaps[u]}
              = {<<e.name, e.at>> : e \in stamped[u]}
        /\ Cardinality(snaps[u]) = Cardinality(stamped[u])

\* C12's case: two requests are each one insert from their end, both about to
\* insert a tuple the store already holds, with different times.
C12_Witness ==
    /\ Len(writers[1].items) = 1
    /\ Len(writers[2].items) = 1
    /\ Canon(writers[1].items[1].prof) = Canon(writers[2].items[1].prof)
    /\ writers[1].items[1].seen_at # writers[2].items[1].seen_at
    /\ RowsOf(snaps, 1, Canon(writers[1].items[1].prof)) # {}
    /\ Cardinality(snaps[1]) = 2

\* The detector, the scanner and the import API at work on the history of
\* user 1.
HistoryNext ==
    \/ Tick
    \/ Rename(1, PB)
    \/ on_any_message(1, 1, 1)
    \/ HRecord(1)
    \/ HTier2(1)
    \/ HSend(1)
    \/ scan.ticks < MaxTicks /\ ScanPick(1, 1)
    \/ ScanFetch("ok", 0)
    \/ ScanSession
    \/ ScanTier2
    \/ ScanSend
    \/ ScanReturn
    \/ \E it \in Items({PA, PC}, {0, MaxStamp}) : BeginImport(1, 1, <<it>>)
    \/ ImportStep(1)

SpecHistory == SysInit /\ [][HistoryNext]_vars

\* C13: whatever the detector, the scanner and the import API do, a user never
\* has fewer snapshot rows than before, and every stored row is still there
\* with the same name and handle fields and a timestamp that is not earlier.
C13_AppendOnly ==
    [][\A u \in Users :
          /\ Cardinality(snaps'[u]) >= Cardinality(snaps[u])
          /\ \A r \in snaps[u] :
                \E q \in snaps'[u] :
                    /\ q.id = r.id
                    /\ Fields(q) = Fields(r)
                    /\ q.seen_at >= r.seen_at]_vars

\* C13's case: after a pass of the scanner and an announcement, the history of
\* user 1 holds the first snapshot, the one of the rename and one only an import
\* brings, and the first row was stamped again by an import.
C13_Witness ==
    /\ Cardinality(snaps[1]) = 3
    /\ scan.ticks > 0
    /\ sent[1] # NoSent
    /\ \E r \in snaps[1] : Fields(r) = Canon(PC)
    /\ \E r \in snaps[1] : Fields(r) = Canon(PA) /\ r.seen_at = MaxStamp

\* The rows of user u seen at or before the cutoff.
UpTo(u, cutoff) == {r \in snaps[u] : r.seen_at <= cutoff}

\* C14: for every user and cutoff, fetch_snapshot_before_or_at returns none
\* exactly when no snapshot of the user is at or before the cutoff, and
\* otherwise a snapshot of the user at or before the cutoff that no other such
\* snapshot beats in time, nor in id at the same time; in particular a cutoff
\* equal to the time of a snapshot that is alone at its time yields that
\* snapshot, and the cutoff just below yields a snapshot strictly earlier, or
\* none when there is no earlier one.
C14_AsOfLookup ==
    \A u \in Users, cutoff \in 0..MaxStamp :
        LET got == fetch_snapshot_before_or_at(snaps, u, cutoff)
        IN /\ (got = NoSnap) <=> (UpTo(u, cutoff) = {})
           /\ got # NoSnap =>
                 /\ got \in UpTo(u, cutoff)
                 /\ \A q \in UpTo(u, cutoff) :
                       /\ q.seen_at <= got.seen_at
                       /\ q.seen_at = got.seen_at => q.id <= got.id
           /\ \A r \in snaps[u] :
                 (r.seen_at = cutoff /\ \A q \in snaps[u] : q.seen_at = cutoff => q = r) =>
                     /\ got = r
                     /\ LET below == fetch_snapshot_before_or_at(snaps, u, cutoff - 1)
                        IN IF \E q \in snaps[u] : q.seen_at < cutoff
                           THEN below \in snaps[u] /\ below.seen_at < cutoff
                                /\ \A q \in snaps[u] :
                                      q.seen_at < cutoff => q.seen_at <= below.seen_at
                           ELSE below = NoSnap

\* C14's case: user 1 has three snapshots, at times 1, 2 and 3.
C14_Witness ==
    /\ Cardinality(snaps[1]) = 3
    /\ {r.seen_at : r \in snaps[1]} = {1, 2, 3}
    /\ fetch_snapshot_before_or_at(snaps, 1, 2).seen_at = 2
    /\ fetch_snapshot_before_or_at(snaps, 1, 1).seen_at = 1
    /\ fetch_snapshot_before_or_at(snaps, 1, 0) = NoSnap

\* C15: for every user, fetch_history_by_user_id returns None, which the API
\* answers with 404, only when the user is not in the users table, and does
\* so when the user is unknown and has no snapshot; it returns the empty list
\* when the user is known and has no snapshot; otherwise it returns each
\* snapshot of the user once, in the order of their times.
C15_History ==
    \A u \in Users :
        LET h == fetch_history_by_user_id(snaps, known, u)
            api == get_history_by_user_id(snaps, known, u)
        IN /\ h = None => u \notin known
           /\ (api.status = 404) <=> (h = None)
           /\ (u \notin known /\ snaps[u] = {}) => h = None
           /\ (u \in known /\ snaps[u] = {}) =>
                 h # None /\ h.list = << >> /\ api.status = 200 /\ api.history = << >>
           /\ snaps[u] # {} =>
                 /\ h # None
                 /\ api.status = 200
                 /\ api.history = h.list
                 /\ Len(h.list) = Cardinality(snaps[u])
                 /\ {<<e.first_name, e.last_name, e.username, e.seen_at>> :
                        e \in {h.list[i] : i \in 1..Len(h.list)}}
                       = {<<r.fn, r.ln, r.un, r.seen_at>> : r \in snaps[u]}
                 /\ \A i, j \in 1..Len(h.list) :
                       i < j => h.list[i].seen_at <= h.list[j].seen_at

\* C15's case: user 2 is known and has no snapshot; user 1 has snapshots whose
\* times run against the order of insertion.
C15_Witness ==
    /\ 2 \in known
    /\ snaps[2] = {}
    /\ get_history_by_user_id(snaps, known, 2) = [status |-> 200, history |-> << >>]
    /\ \E r, q \in snaps[1] : r.id < q.id /\ q.seen_at < r.seen_at
    /\ Len(fetch_history_by_user_id(snaps, known, 1).list) >= 2

\* ------------------------------------------------------ canonicalization
\* The characters names are made of and the length of the strings tried.
Chars == {"a", "e", "acute", "eacute", "sp", "nbsp", "ls", "zwsp", "zwj", "nl"}
MaxLen == 3
Strings == UNION {[1..n -> Chars] : n \in 0..MaxLen}

\* Any string is about to be canonicalized.
TextInit ==
    /\ now = 1
    /\ rows = [k \in Pairs |-> NoRow]
    /\ cache = [p \in Procs |-> << >>]
    /\ calls = [c \in CallIds |-> IdleCall]
    /\ scen = FreeScen
    /\ Untexted
    /\ \E s \in Strings : txt = [NoText EXCEPT !.inp = s]

\* sanitize_name(s)
FirstPass ==
    /\ txt.st = "none"
    /\ txt' = [txt EXCEPT !.once = sanitize_name(txt.inp), !.st = "once"]
    /\ UNCHANGED <<now, rows, cache, identity, member, events, snaps, ncache,
                   wguard, hs, scan, sent, welcomed, outage, pending, known,
                   active, writers, stamped, table, chats, pace, lru>>
    /\ UNCHANGED guardOnly

\* sanitize_name(sanitize_name(s))
SecondPass ==
    /\ txt.st = "once"
    /\ txt' = [txt EXCEPT !.twice = sanitize_name(txt.once), !.st = "twice"]
    /\ UNCHANGED <<now, rows, cache, identity, member, events, snaps, ncache,
                   wguard, hs, scan, sent, welcomed, outage, pending, known,
                   active, writers, stamped, table, chats, pace, lru>>
    /\ UNCHANGED guardOnly

TextNext == FirstPass \/ SecondPass

SpecText == TextInit /\ [][TextNext]_vars

\* C16: for every string s, sanitize_name(sanitize_name(s)) is
\* sanitize_name(s).
C16_Idempotent == txt.st = "twice" => txt.twice = txt.once

\* ------------------------------------------------------------------ noise
\* The profiles user 1 shows in turn: they differ by a zero-width space only.
NoiseProfiles == {PE, PF}

\* Pair 1 was observed with the decomposed name.
NoiseInit == ObservedAs({1}, PE) /\ outage = FALSE

\* Messages and scanner passes while the zero-width space comes and goes.
NoiseNext ==
    \/ Tick
    \/ \E prof \in NoiseProfiles : Rename(1, prof)
    \/ on_any_message(1, 1, 1)
    \/ HRecord(1)
    \/ HTier2(1)
    \/ HSend(1)
    \/ scan.ticks < MaxTicks /\ ScanPick(1, 1)
    \/ ScanFetch("ok", 0)
    \/ ScanSession
    \/ ScanTier2
    \/ ScanSend
    \/ ScanReturn

SpecNoise == NoiseInit /\ [][NoiseNext]_vars

\* A field without its invisible and control characters and with every space
\* made an ASCII space.
PlainField(s) ==
    [i \in 1..Len(strip_invisibles_and_controls(s)) |->
        IF strip_invisibles_and_controls(s)[i] \in Zs \cup Whitespace
        THEN "sp" ELSE strip_invisibles_and_controls(s)[i]]

Plain(prof) == <<PlainField(prof[1]), PlainField(prof[2]), PlainField(prof[3])>>

\* C17: as long as the observations of a user differ only by invisible or
\* control characters or by the kind of whitespace, the user has a single
\* snapshot tuple, no guard is called (no handler and no scanner pass finds a
\* diff) and nothing is announced.
C17_NoiseIsNoChange ==
    (\A p, q \in NoiseProfiles : Plain(p) = Plain(q)) =>
        /\ \A r, q \in snaps[1] : Fields(r) = Fields(q)
        /\ cache = [p \in Procs |-> << >>]
        /\ \A h \in HandlerIds : hs[h].pc \notin {"t2", "send"}
        /\ scan.pc \notin {"t2", "send"}
        /\ sent[1] = NoSent

\* ------------------------------------------------------- membership rows
\* Pair 1 between the handlers and the scanner: messages, joins, leaves seen
\* and unseen, and ticks that find the user in the chat, gone, or the chat
\* closed to the bot.
MembersNext ==
    \/ Tick
    \/ Join(1)
    \/ Depart(1)
    \/ on_chat_member_left(1)
    \/ \E h \in HandlerIds : on_any_message(h, 1, 1)
    \/ \E h \in HandlerIds : HRecord(h)
    \/ \E h \in HandlerIds : on_new_members(h, 1, 1)
    \/ \E h \in HandlerIds : NMRecord(h)
    \/ \E h \in HandlerIds : on_chat_member_update(h, 1, 1)
    \/ \E h \in HandlerIds : CMRecord(h)
    \/ \E h \in HandlerIds : WSend(h)
    \/ scan.ticks < MaxTicks /\ ScanPick(1, 1)
    \/ \E o \in {"ok", "left", "forbidden"} : ScanFetch(o, 0)
    \/ ScanSession
    \/ ScanReturn

SpecMembers == SysInit /\ [][MembersNext]_vars

\* C18: in every state chat_members holds at most one row per (chat, user).
C18_OneRowPerPair ==
    \A k \in Pairs : CopiesIn(KeyOf(k), table) <= 1

\* C18's case: the row of pair 1 was deleted and inserted again, and a
\* message handler, a join handler and the scanner are at work on the pair.
C18_Witness ==
    /\ CopiesIn(KeyOf(1), table) = 1
    /\ rows[1].first_seen = 2
    /\ hs[1].pc = "rec" /\ hs[1].pair = 1
    /\ hs[2].pc \in {"nmrec", "cmrec"} /\ hs[2].pair = 1
    /\ scan.pc = "session" /\ scan.cur.pair = 1

\* ------------------------------------------------------- first activity
\* The bot has seen nobody yet: every user is in its chats and no row exists.
FirstInit ==
    /\ now = 1
    /\ rows = [k \in Pairs |-> NoRow]
    /\ identity = [u \in Users |-> PA]
    /\ member = [k \in Pairs |-> TRUE]
    /\ snaps = [u \in Users |-> {}]
    /\ cache = [p \in Procs |-> << >>]
    /\ events = [k \in Pairs |-> {}]
    /\ ncache = [p \in Procs |-> [u \in Users |-> NoName]]
    /\ wguard = [p \in Procs |-> << >>]
    /\ hs = [h \in HandlerIds |-> IdleH]
    /\ scan = IdleScan
    /\ sent = [k \in Pairs |-> NoSent]
    /\ welcomed = [k \in Pairs |-> NoWelcome]
    /\ pending = [k \in Pairs |-> NoFp]
    /\ calls = [c \in CallIds |-> IdleCall]
    /\ scen = FreeScen
    /\ known = {}
    /\ active = [k \in Pairs |-> FALSE]
    /\ outage = FALSE
    /\ ImportIdle
    /\ txt = NoText

\* Messages of the users in their chats, taken by either process.
FirstNext ==
    \/ Tick
    \/ \E h \in HandlerIds, p \in Procs, k \in Pairs : on_any_message(h, p, k)
    \/ \E p \in Procs, k \in Pairs : on_any_message_skipped(p, k)
    \/ \E h \in HandlerIds : HRecord(h)

SpecFirst == FirstInit /\ [][FirstNext]_vars

\* C19: once the detector has processed an activity of a user in a chat the
\* user is in, chat_members has a row for the pair.
C19_RowOnFirstActivity ==
    \A k \in Pairs : active[k] /\ member[k] => rows[k].present

\* ---------------------------------------------------------------- the batch
\* Two pairs of one chat during an outage of the store: renames, and ticks
\* in which the persisted update of the guard or the send may raise.
BatchInit == Observed({1, 2}) /\ outage = TRUE

BatchNext ==
    \/ \E u \in Users : Rename(u, PB)
    \/ EndOutage
    \/ Pass

SpecBatch == BatchInit /\ [][BatchNext]_vars

\* C20: whatever fails while the scanner deals with a pair, the tick does not
\* end before every pair of its batch has been taken.
C20_BatchSurvives ==
    [][(scan.pc # "idle" /\ scan'.pc = "idle") =>
          /\ scan.queue = << >>
          /\ \A i \in 1..Len(scan.batch) :
                \E j \in 1..Len(scan.handled) : scan.handled[j] = scan.batch[i]]_vars

\* ------------------------------------------------- more claims on the guard
\* The entry the cache c holds for a pair, or NoEntry.
EntryOf(c, key) ==
    IF HasKey(c, key) THEN c[CHOOSE i \in 1..Len(c) : c[i].key = key] ELSE NoEntry

\* C21: a call that finds in its process's cache an entry of the pair with its
\* own fingerprint and younger than the TTL returns suppress at once, with the
\* store untouched and the fingerprint and timestamp of the entry as they
\* were; every other call sets the entry to (fingerprint, now) and goes on to
\* the conditional update; only calls of the first kind end in the local tier.
C21_LocalTier ==
    [][\A c \in CallIds :
         (calls[c].st = "idle" /\ calls'[c].st # "idle") =>
            LET p == calls'[c].proc
                k == calls'[c].pair
                f == calls'[c].fp
                e == EntryOf(cache[p], k)
                hit == e # NoEntry /\ e.fp = f /\ now - e.ts < AnnounceTtl
            IN /\ rows' = rows
               /\ hit => /\ calls'[c].st = "done"
                         /\ calls'[c].res = "local"
                         /\ EntryOf(cache'[p], k).fp = e.fp
                         /\ EntryOf(cache'[p], k).ts = e.ts
               /\ ~hit => /\ calls'[c].st = "t2"
                          /\ EntryOf(cache'[p], k) = [key |-> k, fp |-> f, ts |-> now]]_vars

\* C21's case: after the clock has moved, a call was suppressed by the local
\* tier while another of the same process, with the same fingerprint, is on
\* its way to a store that holds that fingerprint already.
C21_Witness ==
    /\ now > 1
    /\ \E c, d \in CallIds :
          /\ calls[c].st = "done" /\ calls[c].res = "local"
          /\ calls[d].st = "t2" /\ calls[d].pair = calls[c].pair
          /\ calls[d].proc = calls[c].proc /\ calls[d].fp = calls[c].fp
          /\ rows[calls[d].pair].fp = Cut(calls[d].fp)

\* C22: when the conditional update of a call raises, the exception reaches
\* the caller and the cache is as if the call had not been made: the caller's
\* retry with the same fingerprint is not suppressed by the local tier (no
\* other call is under way that could have written the entry).
C22_FailureLeavesCache ==
    [][\A c \in CallIds :
         (/\ calls[c].st = "t2"
          /\ calls'[c].st = "done"
          /\ calls'[c].res = "raise"
          /\ \A d \in CallIds \ {c} : calls[d].st = "idle") =>
            should_announce(cache'[calls[c].proc], calls[c].pair, calls[c].fp, now).ok]_vars

\* C23: a call for a pair without row returns suppress (no allow, no
\* exception), and leaves chat_members without a row for the pair.
C23_NoRowSuppress ==
    [][\A c \in CallIds :
         (/\ calls[c].st # "done"
          /\ calls'[c].st = "done"
          /\ ~rows[calls'[c].pair].present) =>
            /\ calls'[c].res \in {"local", "suppress"}
            /\ rows' = rows
            /\ table' = table]_vars

\* C23's case: the conditional update of a call found no row for its pair.
C23_Witness ==
    \E c \in CallIds :
        /\ calls[c].st = "done"
        /\ calls[c].res = "suppress"
        /\ ~rows[calls[c].pair].present
        /\ CopiesIn(KeyOf(calls[c].pair), table) = 0

\* ------------------------------------------- more claims on the scanner
\* The fetch that has just been answered, and the pair it was for.
Answered(o) == scan.handled # scan'.handled /\ scan'.out = o
Fetched == Head(scan.queue).pair

\* C24: when the fetch for a pair of chat c is answered with Forbidden, then
\* once the pair is handled no chat_members row of c remains, the chats row of
\* c is inactive, the pair is not appended to the batch, and no snapshot is
\* recorded, no guard entry written and nothing announced.
C24_Forbidden ==
    [][Answered("forbidden") =>
          LET c == ChatOf(Fetched)
          IN /\ \A j \in Pairs : ChatOf(j) = c =>
                    ~rows'[j].present /\ CopiesIn(KeyOf(j), table') = 0
             /\ \A j \in Pairs : ChatOf(j) # c => rows'[j] = rows[j]
             /\ chats'[c].present /\ ~chats'[c].is_active
             /\ scan'.pc = "loop" /\ scan'.queue = Tail(scan.queue)
             /\ snaps' = snaps /\ sent' = sent /\ cache' = cache]_vars

C24_Witness ==
    /\ scan.out = "forbidden" /\ scan.pc = "loop"
    /\ ChatOf(scan.cur.pair) = 1
    /\ ~rows[1].present /\ ~rows[2].present /\ rows[3].present
    /\ chats[1].present /\ ~chats[1].is_active /\ chats[2].is_active
    /\ scan.queue # << >>

\* C25: when the fetch for a pair is answered with BadRequest, the watermark
\* of its chat_members row becomes the current time and nothing else of the
\* row changes, the pair is not requeued and does not occur in what is left of
\* the tick, and no snapshot is recorded, no guard entry written and nothing
\* announced.
C25_BadRequest ==
    [][Answered("badrequest") =>
          LET k == Fetched
          IN /\ rows[k].present => rows'[k] = [rows[k] EXCEPT !.last_checked = now]
             /\ ~rows[k].present => ~rows'[k].present
             /\ \A j \in Pairs \ {k} : rows'[j] = rows[j]
             /\ scan'.pc = "loop" /\ scan'.queue = Tail(scan.queue)
             /\ k \notin PairsOf(scan'.queue)
             /\ snaps' = snaps /\ sent' = sent /\ cache' = cache
             /\ chats' = chats /\ table' = table]_vars

C25_Witness ==
    /\ scan.out = "badrequest" /\ scan.pc = "loop"
    /\ now > 1
    /\ rows[scan.cur.pair].present
    /\ rows[scan.cur.pair].last_checked = now
    /\ rows[scan.cur.pair].last_seen = 1
    /\ scan.queue # << >>

\* C26: when the fetch for a pair raises an error that is neither RetryAfter,
\* Forbidden nor BadRequest, the pair is skipped for the rest of the tick and
\* nothing persisted changes: chat_members (row, watermark, last-announced
\* fingerprint), user_names, users and chats are as they were, nothing is
\* announced, and the pair's row is still one pick_members_for_scan selects.
C26_OtherError ==
    [][Answered("error") =>
          LET k == Fetched
          IN /\ rows' = rows /\ table' = table
             /\ snaps' = snaps /\ known' = known /\ chats' = chats
             /\ cache' = cache /\ sent' = sent
             /\ scan'.pc = "loop" /\ scan'.queue = Tail(scan.queue)
             /\ k \notin PairsOf(scan'.queue)
             /\ rows[k].present =>
                   \E q \in pick_members_for_scan(rows', BatchSize) :
                      \E i \in DOMAIN q : q[i] = k]_vars

C26_Witness ==
    /\ scan.out = "error" /\ scan.pc = "loop"
    /\ now > 1
    /\ rows[scan.cur.pair].present
    /\ rows[scan.cur.pair].last_checked = 1
    /\ chats[ChatOf(scan.cur.pair)].is_active
    /\ scan.queue # << >>

\* C27: when a fetch succeeds and the member it returns has no user or a bot,
\* the watermark of the pair's row becomes the current time and nothing else
\* happens: the row is otherwise as it was, no snapshot is recorded, the tick
\* goes on to the next pair without a diff, the guard is not called and
\* nothing is announced.
C27_BotOrNoUser ==
    [][Answered("bot") =>
          LET k == Fetched
          IN /\ rows[k].present => rows'[k] = [rows[k] EXCEPT !.last_checked = now]
             /\ ~rows[k].present => ~rows'[k].present
             /\ \A j \in Pairs \ {k} : rows'[j] = rows[j]
             /\ table' = table /\ chats' = chats
             /\ snaps' = snaps /\ known' = known
             /\ cache' = cache /\ sent' = sent
             /\ scan'.pc = "loop" /\ scan'.diffs = << >> /\ scan'.res = "none"
             /\ scan'.queue = Tail(scan.queue)]_vars

C27_Witness ==
    /\ scan.out = "bot" /\ scan.pc = "loop"
    /\ now > 1
    /\ rows[scan.cur.pair].present
    /\ rows[scan.cur.pair].last_checked = now
    /\ rows[scan.cur.pair].first_seen = 1
    /\ snaps[UserOf(scan.cur.pair)] # {}

\* ------------------------------------------------------------- departures
\* C28: once the detector has processed an update whose new status is left or
\* kicked (a departure upon which the tables change), and once a fetch of the
\* scanner has reported left or kicked, the pair has no chat_members row, and
\* that step records no snapshot and announces nothing.
C28_LeftIsDeleted ==
    [][/\ \A k \in Pairs :
             (member[k] /\ ~member'[k] /\ <<rows, chats, table>>' # <<rows, chats, table>>) =>
                /\ ~rows'[k].present /\ CopiesIn(KeyOf(k), table') = 0
                /\ snaps' = snaps /\ sent' = sent /\ cache' = cache
       /\ Answered("left") =>
             /\ ~rows'[Fetched].present /\ CopiesIn(KeyOf(Fetched), table') = 0
             /\ scan'.pc = "loop"
             /\ snaps' = snaps /\ sent' = sent /\ cache' = cache]_vars

\* C28's case: the detector has removed the row of a user that left (no scan
\* has run), the snapshots of the user being kept.
C28_Witness ==
    /\ ~member[1] /\ ~rows[1].present /\ CopiesIn(KeyOf(1), table) = 0
    /\ scan.ticks = 0
    /\ now > 1 /\ chats[1].last_seen = now
    /\ snaps[1] # {}

\* The other case of C28: the scanner has found that the user left.
ScannedLeft ==
    /\ scan.out = "left" /\ scan.cur.pair = 1 /\ scan.pc = "loop"
    /\ ~rows[1].present /\ snaps[1] # {}

\* --------------------------------------------------------- the selection
\* The limits a tick is started with, and the times a row may carry.
MaxLimit == 2
MaxSeen == 2
Limits == 1..MaxLimit
PickRows ==
    {NoRow} \cup [present : {TRUE}, first_seen : {1}, last_seen : 1..MaxSeen,
                  last_checked : 0..MaxSeen, fp : {NoFp}]

\* chat_members holds any rows: never verified, or verified at some time.
PickInit ==
    /\ now = MaxSeen
    /\ rows \in [Pairs -> PickRows]
    /\ identity = [u \in Users |-> PA]
    /\ member = [k \in Pairs |-> rows[k].present]
    /\ snaps = [u \in Users |-> {}]
    /\ cache = [p \in Procs |-> << >>]
    /\ events = [k \in Pairs |-> {}]
    /\ ncache = [p \in Procs |-> [u \in Users |-> NoName]]
    /\ wguard = [p \in Procs |-> << >>]
    /\ hs = [h \in HandlerIds |-> IdleH]
    /\ scan = IdleScan
    /\ sent = [k \in Pairs |-> NoSent]
    /\ welcomed = [k \in Pairs |-> NoWelcome]
    /\ pending = [k \in Pairs |-> NoFp]
    /\ calls = [c \in CallIds |-> IdleCall]
    /\ scen = FreeScen
    /\ known = {}
    /\ active = [k \in Pairs |-> FALSE]
    /\ outage = FALSE
    /\ ImportIdle
    /\ txt = NoText

\* One tick with some limit; its fetches fail and change nothing.
PickNext ==
    \/ scan.ticks < MaxTicks /\ \E limit \in Limits : ScanPickOf(1, 1, limit)
    \/ ScanFetch("error", 0)
    \/ ScanReturn

SpecPick == PickInit /\ [][PickNext]_vars

\* The order of the selection, read off the rows: a comes before b.
ComesBefore(a, b) ==
    LET ka == <<rows[a].last_checked, rows[a].last_seen>>
        kb == <<rows[b].last_checked, rows[b].last_seen>>
    IN ka[1] < kb[1] \/ (ka[1] = kb[1] /\ ka[2] > kb[2])

\* C29: the result of pick_members_for_scan(limit) has at most limit pairs,
\* as many as there are rows up to limit, each the pair of a row and none
\* twice, in the order last_checked ascending (a row never verified first)
\* then last_seen descending, and no row left out comes before one selected.
C29_Selection ==
    scan.pc = "loop" =>
        LET q == scan.batch
            n == Len(q)
            limit == scan.batch_size
            all == {k \in Pairs : rows[k].present}
            inside == {q[i] : i \in 1..n}
        IN /\ n <= limit
           /\ n = (IF Cardinality(all) < limit THEN Cardinality(all) ELSE limit)
           /\ inside \subseteq all /\ Cardinality(inside) = n
           /\ \A i, j \in 1..n : i < j => ~ComesBefore(q[j], q[i])
           /\ \A k \in all \ inside : \A i \in 1..n : ~ComesBefore(k, q[i])
           /\ (\E k \in all : rows[k].last_checked = 0) => rows[q[1]].last_checked = 0

\* C29's case: three rows and a limit of two; a row never verified comes
\* first, and of two rows verified at the same time the one seen last is
\* selected and the other left out.
C29_Witness ==
    /\ scan.pc = "loop" /\ scan.batch_size = 2 /\ Len(scan.batch) = 2
    /\ \A k \in Pairs : rows[k].present
    /\ rows[scan.batch[1]].last_checked = 0
    /\ \E k \in Pairs :
          /\ k # scan.batch[1] /\ k # scan.batch[2]
          /\ rows[k].last_checked = rows[scan.batch[2]].last_checked
          /\ rows[k].last_seen < rows[scan.batch[2]].last_seen

\* ---------------------------------------------------------------- pacing
\* The monotonic clock counts in steps of 1/Unit second; scan_max_rps is one
\* of Rates; a sleep may end up to MaxLate steps late.
Unit == 2
Rates == {0, 1, 2}
MaxMono == 10
MaxLate == 1
MaxPaced == 4
MaxRuns == 2

\* min_gap = 1.0 / max(1, int(config.scan_max_rps))
min_gap(rps) == Unit \div (IF rps < 1 THEN 1 ELSE rps)

\* A plausible slip: last_call_ts is the time read before the sleep.
respect_ratelimit_early(last, gap, t, late) ==
    IF gap <= 0 THEN [clock |-> t, last |-> last]
    ELSE LET sleep_for == (last + gap) - t
         IN [clock |-> IF sleep_for > 0 THEN t + sleep_for + late ELSE t,
             last |-> t]

\* _respect_ratelimit at time t, its sleep ending late steps late: the time
\* it returns at and the last_call_ts it leaves.
respect_ratelimit(last, gap, t, late) ==
    IF gap <= 0 THEN [clock |-> t, last |-> last]
    ELSE LET sleep_for == (last + gap) - t
             woke == IF sleep_for > 0 THEN t + sleep_for + late ELSE t
         IN [clock |-> woke, last |-> woke]

\* Everything but the pacing.
unpaced == <<now, rows, cache, calls, scen, identity, member, events, snaps,
             ncache, wguard, hs, scan, sent, welcomed, outage, pending, known,
             active, writers, stamped, txt, table, chats, lru>>

\* schedule_scanner has registered the job: min_gap and retry_leeway are in
\* its data and last_call_ts is 0.0.
PaceInit ==
    /\ now = 1
    /\ rows = [k \in Pairs |-> NoRow]
    /\ identity = [u \in Users |-> PA]
    /\ member = [k \in Pairs |-> FALSE]
    /\ snaps = [u \in Users |-> {}]
    /\ cache = [p \in Procs |-> << >>]
    /\ events = [k \in Pairs |-> {}]
    /\ ncache = [p \in Procs |-> [u \in Users |-> NoName]]
    /\ wguard = [p \in Procs |-> << >>]
    /\ hs = [h \in HandlerIds |-> IdleH]
    /\ scan = IdleScan
    /\ sent = [k \in Pairs |-> NoSent]
    /\ welcomed = [k \in Pairs |-> NoWelcome]
    /\ pending = [k \in Pairs |-> NoFp]
    /\ calls = [c \in CallIds |-> IdleCall]
    /\ scen = FreeScen
    /\ known = {}
    /\ active = [k \in Pairs |-> FALSE]
    /\ outage = FALSE
    /\ writers = [w \in Writers |-> NoImport]
    /\ stamped = [u \in Users |-> {}]
    /\ table = TableOf(rows)
    /\ chats = ChatsOf(rows, now)
    /\ txt = NoText
    /\ lru = NoLru
    /\ \E rps \in Rates, l \in Leeways :
          pace = [NoPace EXCEPT !.pc = "idle", !.min_gap = min_gap(rps), !.leeway = l]

\* Time passes: a database call, a call of the platform, the wait for the
\* next run.
Elapse ==
    /\ pace.pc # "off"
    /\ pace.clock < MaxMono
    /\ pace' = [pace EXCEPT !.clock = @ + 1]
    /\ UNCHANGED unpaced

\* _scan_tick starts: last_call_ts is read from the job data.
TickBegins ==
    /\ pace.pc = "idle"
    /\ pace.runs < MaxRuns
    /\ pace' = [pace EXCEPT !.pc = "loop", !.last_call_ts = pace.job_ts,
                            !.runs = @ + 1]
    /\ UNCHANGED unpaced

\* The pacing after _respect_ratelimit has returned r and the paced call
\* starts, the tick going on at pc. The starts of this call and of the one
\* before it are noted, the time since a backoff that came between them, and
\* whether the two calls are of two ticks.
Started(r, pc) ==
    [pace EXCEPT !.pc = pc, !.clock = r.clock, !.last_call_ts = r.last,
                 !.job_ts = r.last, !.prev = pace.cur, !.cur = r.clock,
                 !.after = IF pace.back >= 0 THEN r.clock - pace.back ELSE -1,
                 !.back = -1, !.calls = @ + 1,
                 !.across = pace.fresh /\ pace.cur >= 0, !.fresh = FALSE]

\* await _respect_ratelimit(); member = await bot.get_chat_member(...)
PacedFetch(late) ==
    /\ pace.pc = "loop"
    /\ pace.calls < MaxPaced
    /\ LET r == respect_ratelimit(pace.last_call_ts, pace.min_gap, pace.clock, late)
       IN /\ r.clock <= MaxMono
          /\ pace' = Started(r, "called")
    /\ UNCHANGED unpaced

\* get_chat_member raises RetryAfter: sleep wait_s, requeue, and last_call_ts
\* becomes the time the sleep has ended at.
FetchLimited(n, late) ==
    /\ pace.pc = "called"
    /\ LET woke == pace.clock + Unit * wait_s(n, pace.leeway) + late
       IN /\ woke <= MaxMono
          /\ pace' = [pace EXCEPT !.pc = "loop", !.clock = woke,
                                  !.last_call_ts = woke, !.job_ts = woke,
                                  !.back = woke]
    /\ UNCHANGED unpaced

\* get_chat_member returns or raises another error: the pair is done with, or
\* a change is found and the guard allows it.
FetchAnswered(send) ==
    /\ pace.pc = "called"
    /\ pace' = [pace EXCEPT !.pc = IF send THEN "allowed" ELSE "loop"]
    /\ UNCHANGED unpaced

\* await _respect_ratelimit(); await _announce_change_if_needed(...), which
\* lets no exception out.
PacedSend(late) ==
    /\ pace.pc = "allowed"
    /\ pace.calls < MaxPaced
    /\ LET r == respect_ratelimit(pace.last_call_ts, pace.min_gap, pace.clock, late)
       IN /\ r.clock <= MaxMono
          /\ pace' = Started(r, "loop")
    /\ UNCHANGED unpaced

\* The tick returns.
TickEnds ==
    /\ pace.pc = "loop"
    /\ pace' = [pace EXCEPT !.pc = "idle", !.fresh = TRUE]
    /\ UNCHANGED unpaced

PaceNext ==
    \/ Elapse
    \/ TickBegins
    \/ \E late \in 0..MaxLate : PacedFetch(late)
    \/ \E n \in RetryAfters, late \in 0..MaxLate : FetchLimited(n, late)
    \/ \E send \in BOOLEAN : FetchAnswered(send)
    \/ \E late \in 0..MaxLate : PacedSend(late)
    \/ TickEnds

SpecPace == PaceInit /\ [][PaceNext]_vars

\* C30: two consecutive paced calls of the scanner (fetches and sends, of one
\* tick or of two) start at least min_gap apart, and the call that follows a
\* rate-limit backoff starts at least min_gap after the backoff has ended.
C30_Pacing ==
    /\ pace.prev >= 0 => pace.cur - pace.prev >= pace.min_gap
    /\ pace.after >= 0 => pace.after >= pace.min_gap

\* C30's case: the first call of the second tick has started exactly min_gap
\* after the last call of the first, with two calls to the second.
C30_Witness ==
    /\ pace.across
    /\ pace.cur - pace.prev = pace.min_gap
    /\ pace.min_gap = 1

\* The other case of C30: a call has started exactly min_gap after a backoff.
PacedAfterBackoff ==
    /\ pace.after = pace.min_gap /\ pace.min_gap = Unit
    /\ pace.prev >= 0 /\ pace.cur - pace.prev > Unit

\* ---------------------------------------------------- failures of the send
\* C31: when the send of an announcement fails, nothing written earlier in
\* the flow is taken back (chat_members, user_names, users and the guard cache
\* are as they were), the handler returns and the scanner goes on with the
\* next pair, and the send is not made again: nothing is delivered and the
\* pair is not put back into the batch.
C31_SendFailure ==
    [][/\ \A h \in HandlerIds :
             (hs[h].pc = "send" /\ hs'[h].pc # "send" /\ sent' = sent) =>
                /\ rows' = rows /\ snaps' = snaps /\ known' = known
                /\ cache' = cache /\ table' = table
                /\ hs'[h] = IdleH
       /\ (scan.pc = "send" /\ scan'.pc # "send" /\ sent' = sent) =>
             /\ rows' = rows /\ snaps' = snaps /\ known' = known
             /\ cache' = cache /\ table' = table
             /\ scan'.pc = "loop" /\ scan'.queue = scan.queue
             /\ scan'.nsent = scan.nsent]_vars

\* C31's case: the handler's send of a change has failed: the fingerprint of
\* the change is stored, its snapshot recorded and the watermark advanced, and
\* the chat has not been told.
C31_Witness ==
    /\ hs[1].pc = "idle" /\ scan.pc = "idle" /\ scan.ticks = 0
    /\ pending[1] # NoFp
    /\ rows[1].fp = Cut(pending[1])
    /\ sent[1].fp # pending[1]
    /\ rows[1].last_checked = now /\ now > 1
    /\ \E r \in snaps[1] : r.seen_at = now

\* ------------------------------------------------- claims on the mini-scan
\* Two members of one chat, both observed; messages of either, handled by one
\* handler at a time, and the mini-scan of a throttled message.
MiniInit == Observed({1, 2}) /\ outage = FALSE

MiniNext ==
    \/ Tick
    \/ Rename(1, PB)
    \/ Depart(2)
    \/ \E k \in {1, 2} : on_any_message(1, 1, k)
    \/ HRecord(1)
    \/ HTier2(1)
    \/ HSend(1)
    \/ \E k \in {1, 2} : opportunistic_scan_stale(1, k)
    \/ \E o \in Outcomes : MiniFetch(o)
    \/ ScanSession
    \/ ScanTier2
    \/ ScanSend
    \/ ScanReturn

SpecMini == MiniInit /\ [][MiniNext]_vars

\* C32: an event of a member whose fields equal the throttle entry, the entry
\* being younger than the window, leads to no write and no guard call for that
\* member -- its chat_members row and its snapshots stay as they are, the chats
\* table too, and the mini-scan it starts never records or guards the member
\* itself; the full sequence starts only when the throttle does not skip.
C32_Throttle ==
    [][/\ (scan.trigger # 0 /\ scan' # scan) =>
             /\ rows'[scan.trigger] = rows[scan.trigger]
             /\ snaps'[UserOf(scan.trigger)] = snaps[UserOf(scan.trigger)]
             /\ chats' = chats
             /\ ~(scan'.pc = "session" /\ scan'.cur.pair = scan.trigger)
       /\ (scan.trigger = 0 /\ scan'.trigger # 0) =>
             /\ should_skip(ncache[scan'.proc], UserOf(scan'.trigger),
                            identity[UserOf(scan'.trigger)], now)
             /\ UNCHANGED <<rows, snaps, known, chats, cache, sent, hs>>
       /\ \A h \in HandlerIds :
             (hs[h].pc = "idle" /\ hs'[h].pc = "rec") =>
                ~should_skip(ncache[hs'[h].proc], UserOf(hs'[h].pair),
                             identity[UserOf(hs'[h].pair)], now)]_vars

\* C34: for every fetch outcome of the mini-scan other than a rate limit that
\* does not lead to the snapshot step in the scanner (Forbidden, BadRequest,
\* another error, a member that left, a bot), chat_members, chats, snapshots,
\* the guard cache and the announcements are after the step what the scanner's
\* branch for that outcome makes of them, and the loop goes on; the mini-scan
\* takes at most three pairs, all of the chat of the event.
C34_SameAsScanner ==
    [][/\ \A o \in Outcomes \ {"retry", "ok"} :
             (scan.trigger # 0 /\ Answered(o)) =>
                /\ rows' = fetch_branch(rows, Fetched, o, now)
                /\ chats' = IF o = "forbidden"
                            THEN mark_chat_inactive(chats, ChatOf(Fetched), now)
                            ELSE chats
                /\ scan'.pc = "loop"
                /\ UNCHANGED <<snaps, known, cache, sent>>
       /\ (scan.trigger = 0 /\ scan'.trigger # 0) =>
             /\ Len(scan'.queue) <= 3
             /\ \A i \in 1..Len(scan'.queue) :
                   /\ ChatOf(scan'.queue[i].pair) = ChatOf(scan'.trigger)
                   /\ rows[scan'.queue[i].pair].present]_vars

\* ---------------------------------------------- a join with changed names
\* User 1, observed in chat 1 as PA, is renamed, leaves and joins again; both
\* join events are handled.
JoinInit == Observed({1}) /\ outage = FALSE

JoinNext ==
    \/ Tick
    \/ Rename(1, PB)
    \/ on_chat_member_left(1)
    \/ Join(1)
    \/ \E h \in HandlerIds : on_new_members(h, 1, 1)
    \/ \E h \in HandlerIds : NMRecord(h)
    \/ \E h \in HandlerIds : on_chat_member_update(h, 1, 1)
    \/ \E h \in HandlerIds : CMRecord(h)
    \/ \E h \in HandlerIds : WSend(h)

SpecJoin == JoinInit /\ [][JoinNext]_vars

PresenceChats == {1}

PresenceInit == Observed({1}) /\ outage = FALSE

PresenceNext ==
    \/ Tick
    \/ \E c \in PresenceChats, st \in BotStatuses :
          \E adm \in AdminLists(c) : handle_bot_join(c, st, adm)
    \/ \E c \in PresenceChats, code \in Langs : cmd_setlang(c, code)
    \/ Rename(1, PB)
    \/ on_any_message(1, 1, 1)
    \/ HRecord(1)
    \/ HTier2(1)
    \/ HSend(1)
    \/ on_chat_member_left(1)
    \/ scan.ticks < MaxTicks /\ ScanPick(1, 1)
    \/ \E o \in Outcomes \ {"retry"} : ScanFetch(o, 0)
    \/ ScanSession
    \/ ScanTier2
    \/ ScanSend
    \/ ScanReturn

SpecPresence == PresenceInit /\ [][PresenceNext]_vars

\* A step that handles a my_chat_member update of chat c: no handler of
\* member events and no scanner step, and the chats row is what
\* set_bot_presence makes of it.
BotEventStep(c) ==
    /\ scan' = scan /\ hs' = hs /\ member' = member
    /\ \E st \in BotStatuses : chats'[c] = set_bot_presence(chats, c, st, now)[c]

\* The scanner's fetch for a pair of chat c is answered with Forbidden.
ForbiddenStep(c) ==
    scan.trigger = 0 /\ Answered("forbidden") /\ ChatOf(Fetched) = c

\* C35 as stated: is_active of an existing chats row changes only in a step
\* that handles a membership update of the bot.
C35_OnlyBotEvents ==
    [][\A c \in Chats :
          (chats[c].present /\ chats'[c].is_active # chats[c].is_active)
             => BotEventStep(c)]_vars

\* C35, amended: is_active of an existing chats row changes only in a step
\* that handles a membership update of the bot, or when the scanner's fetch
\* for a pair of the chat is answered with Forbidden, which clears it; the row
\* is never deleted, and touch_chat, set_chat_language, the handlers of member
\* events and every other scanner step leave the flag as it is.
C35_BotEventsOrForbidden ==
    [][\A c \in Chats :
          /\ chats[c].present => chats'[c].present
          /\ (chats[c].present /\ chats'[c].is_active # chats[c].is_active)
                => \/ BotEventStep(c)
                   \/ ForbiddenStep(c) /\ ~chats'[c].is_active]_vars

\* The bot was reported kicked from chat 1; afterwards the language was set, a
\* message of the member was taken up and the scanner marked the member
\* checked, and the chat is still inactive.
C35_Witness ==
    /\ chats[1].present /\ ~chats[1].is_active
    /\ chats[1].bot_status = "kicked"
    /\ chats[1].lang = "uk"
    /\ chats[1].last_seen = now /\ now > 1
    /\ hs[1].pc = "rec"
    /\ scan.out = "badrequest" /\ rows[1].last_checked = now

\* ------------------------------------------------------ the bounded caches
\* The sizes the caches are held to: maxsize of the guard's _LRU and
\* _CACHE_MAX_USERS of the name cache (the welcome guard has WelcomeGuardMax).
LruMax == 2
CacheMaxUsers == 1

\* One key more than the guard holds.
LruKeys == 1..(LruMax + 1)

uncached == <<now, rows, cache, calls, scen, identity, member, events, snaps,
              ncache, wguard, hs, scan, sent, welcomed, outage, pending, known,
              active, writers, stamped, txt, table, chats, pace>>

KeysOf(c) == {c[i].key : i \in 1..Len(c)}

\* The keys in the order of their last use, key k having been used now.
Touch(sq, k) == Append(SelectSeq(sq, LAMBDA x : x # k), k)

\* The entry of c that d no longer has (NoEntry: none).
Dropped(c, d) ==
    IF \E i \in 1..Len(c) : ~HasKey(d, c[i].key)
    THEN c[CHOOSE i \in 1..Len(c) : ~HasKey(d, c[i].key)]
    ELSE NoEntry

\* The key of c whose last use is the longest ago.
LeastRecentlyUsed(c, used) == Head(SelectSeq(used, LAMBDA x : HasKey(c, x)))

CachesInit == GuardInit

\* _store.get_move(key)
LruGetMove(k) ==
    /\ lru' = [lru EXCEPT !.guard = get_move(lru.guard, k).store,
                          !.used = IF HasKey(lru.guard, k) THEN Touch(@, k) ELSE @,
                          !.evicted = NoEntry]
    /\ UNCHANGED uncached

\* _store.set(key, _Entry(fp, now))
LruSet(k, fp) ==
    /\ LET d == lru_set_max(lru.guard, k, fp, now, LruMax)
       IN lru' = [lru EXCEPT !.guard = d, !.used = Touch(@, k),
                             !.evicted = Dropped(lru.guard, d)]
    /\ UNCHANGED uncached

\* _name_cache.get_cached(user_id)
NameGetCached(u) ==
    /\ lru' = [lru EXCEPT !.names = get_cached(lru.names, u).store,
                          !.evicted = NoEntry]
    /\ UNCHANGED uncached

\* _name_cache.put(user_id, fn, ln, un)
NamePut(u, prof) ==
    /\ lru' = [lru EXCEPT !.names = cache_put(lru.names, u, Canon(prof), now,
                                              CacheMaxUsers),
                          !.evicted = NoEntry]
    /\ UNCHANGED uncached

\* _welcome_guard.should_welcome(chat_id, user_id)
GuardWelcome(k) ==
    /\ lru' = [lru EXCEPT !.welcome = should_welcome(lru.welcome, k, now).store,
                          !.evicted = NoEntry]
    /\ UNCHANGED uncached

CachesNext ==
    \/ Tick
    \/ \E k \in LruKeys : LruGetMove(k)
    \/ \E k \in LruKeys : LruSet(k, Fill("x", StoreLen))
    \/ \E u \in Users : NameGetCached(u)
    \/ \E u \in Users, prof \in {PA, PB} : NamePut(u, prof)
    \/ \E k \in LruKeys : GuardWelcome(k)

SpecCaches == CachesInit /\ [][CachesNext]_vars

\* C36: none of the three caches ever holds more entries than its maximum,
\* and an entry leaves the guard's cache only when a key it does not hold is
\* set while it is full; the entry that leaves is then the one whose last use,
\* by get_move or by set, is the longest ago.
C36_Bounded ==
    /\ [](/\ Len(lru.guard) <= LruMax
          /\ Len(lru.names) <= CacheMaxUsers
          /\ Len(lru.welcome) <= WelcomeGuardMax)
    /\ [][KeysOf(lru.guard) \ KeysOf(lru'.guard) # {} =>
             /\ Len(lru.guard) = LruMax
             /\ \E k \in LruKeys : ~HasKey(lru.guard, k) /\ HasKey(lru'.guard, k)
             /\ KeysOf(lru.guard) \ KeysOf(lru'.guard)
                   = {LeastRecentlyUsed(lru.guard, lru.used)}
             /\ Len(lru'.guard) = LruMax]_vars

\* The guard's cache is full and has just evicted an entry that was set later
\* than one it still holds, which a get_move had moved to the end; the other
\* two caches are full too.
C36_Witness ==
    /\ lru.evicted # NoEntry
    /\ Len(lru.guard) = LruMax
    /\ \E i \in 1..Len(lru.guard) : lru.guard[i].ts < lru.evicted.ts
    /\ Len(lru.names) = CacheMaxUsers
    /\ Len(lru.welcome) = WelcomeGuardMax

\* ------------------------------------------------- the two tiers compared
\* C37: whenever the local tier (should_announce) suppresses a call for a pair
\* and a fingerprint F, the row of the pair exists and its stored
\* last-announced fingerprint is F (as stored, cut to the column).
C37_LocalNeverStricter ==
    [][\A c \in CallIds :
          (calls[c].st = "idle" /\ calls'[c].res = "local") =>
             /\ rows[calls'[c].pair].present
             /\ rows[calls'[c].pair].fp = Cut(calls'[c].fp)]_vars

\* ------------------------------------------------------ activity elsewhere
\* User 1 is in chats 1 and 2, both pairs verified while it shows PA. It is
\* seen in chat 2 while it still shows PA, is renamed to PB, and is seen in
\* chat 1.
ElsewhereInit == Observed({1, 3}) /\ outage = FALSE

ElsewhereNext ==
    \/ Tick
    \/ Rename(1, PB)
    \/ identity[1] = PA /\ \E h \in HandlerIds : on_any_message(h, 1, 3)
    \/ \E h \in HandlerIds : on_any_message(h, 1, 1)
    \/ \E h \in HandlerIds : HRecord(h)
    \/ \E h \in HandlerIds : HTier2(h)
    \/ \E h \in HandlerIds : HSend(h)

SpecElsewhere == ElsewhereInit /\ [][ElsewhereNext]_vars

\* The names of a snapshot row.
NamesOf(r) == <<r.fn, r.ln, r.un>>

\* C38: pair 1 was verified while its user showed PA. As long as no other
\* names were recorded for the user, whatever was observed in chat 2, the
\* baseline lookup of pair 1 (as of its watermark, else as of first-seen)
\* returns PA; and once the names PB have been recorded and the handlers are
\* done, the change has been announced in chat 1.
C38_BaselineSurvives ==
    /\ (\A r \in snaps[1] : NamesOf(r) = Canon(PA)) =>
          LET b == prev_for_chat(snaps, 1, get_member_last_checked(rows, 1),
                                 get_member_first_seen(rows, 1))
          IN b # NoSnap /\ NamesOf(b) = Canon(PA)
    /\ ((\A h \in HandlerIds : hs[h].pc = "idle")
           /\ \E r \in snaps[1] : NamesOf(r) = Canon(PB))
          => sent[1].fp = Fp(PB)

\* ------------------------------------------------------ leaving and rejoining
\* User 1, observed in chat 1 as PA, is renamed back and forth, leaves and
\* joins again; its messages and its join events are handled by one handler.
RejoinInit == Observed({1}) /\ outage = FALSE

RejoinNext ==
    \/ Tick
    \/ \E prof \in {PA, PB} : Rename(1, prof)
    \/ on_any_message(1, 1, 1)
    \/ HRecord(1)
    \/ HTier2(1)
    \/ HSend(1)
    \/ on_chat_member_left(1)
    \/ Join(1)
    \/ on_chat_member_update(1, 1, 1)
    \/ CMRecord(1)
    \/ WSend(1)

SpecRejoin == RejoinInit /\ [][RejoinNext]_vars

\* C39: a chat_members row that is deleted leaves nothing behind; the row
\* add_or_touch_member creates for the pair has no last-announced fingerprint,
\* the current time as first-seen and no watermark; and the guard call that
\* reaches the conditional UPDATE while the fingerprint of the row is still
\* unset is allowed and stores its fingerprint, whatever it is.
C39_FreshAfterRejoin ==
    [][/\ \A k \in Pairs :
             /\ (rows[k].present /\ ~rows'[k].present) => rows'[k] = NoRow
             /\ (~rows[k].present /\ rows'[k].present) =>
                   /\ rows'[k].fp = NoFp
                   /\ rows'[k].first_seen = now
                   /\ rows'[k].last_checked = 0
       /\ \A h \in HandlerIds :
             (/\ hs[h].pc = "t2" /\ hs'[h].pc # "t2"
              /\ rows[hs[h].pair].present /\ rows[hs[h].pair].fp = NoFp) =>
                /\ hs'[h].pc = "send"
                /\ rows'[hs[h].pair].fp = Cut(Fp(hs[h].prof))]_vars

\* The change to PB was announced in chat 1, the member left and joined again
\* as PA, and a new change to PB has just been allowed by the persisted tier:
\* the fingerprint last announced before the deletion.
C39_Witness ==
    /\ hs[1].pc = "send" /\ hs[1].pair = 1 /\ hs[1].prof = PB
    /\ sent[1].fp = Fp(PB)
    /\ rows[1].present /\ rows[1].first_seen > 1
    /\ rows[1].fp = Cut(Fp(PB))

\* ------------------------------------------------------- no baseline
\* Nobody has been seen yet. User 1 writes in chat 1 and is renamed; the
\* scanner runs once, possibly between the creation of the member's row and
\* the first snapshot.
UnseenInit == FirstInit

UnseenNext ==
    \/ Tick
    \/ \E prof \in {PA, PB} : Rename(1, prof)
    \/ on_any_message(1, 1, 1)
    \/ HRecord(1)
    \/ HTier2(1)
    \/ HSend(1)
    \/ scan.ticks < MaxTicks /\ ScanPick(1, 1)
    \/ ScanFetch("ok", 0)
    \/ ScanSession
    \/ ScanTier2
    \/ ScanSend
    \/ ScanReturn

SpecUnseen == UnseenInit /\ [][UnseenNext]_vars

\* The current names have a snapshot seen now and the row of the pair, where
\* it exists, is marked checked now; the guard and the announcements are as
\* they were.
RecordedOnly(k, prof) ==
    /\ \E r \in snaps'[UserOf(k)] : r.seen_at = now /\ NamesOf(r) = Canon(prof)
    /\ rows'[k].present => rows'[k].last_checked = now
    /\ rows'[k].fp = rows[k].fp
    /\ UNCHANGED <<cache, sent, pending>>

\* C40: when the detector or the scanner found no baseline for a pair, the
\* step that records the snapshot and advances the watermark finds no
\* difference, does not call the guard and leads to no announcement; and no
\* change is ever announced for a user of whom fewer than two distinct names
\* were recorded.
C40_NoBaselineNoAnnouncement ==
    /\ [](\A k \in Pairs : sent[k] # NoSent => Cardinality(snaps[UserOf(k)]) >= 2)
    /\ [][/\ \A h \in HandlerIds :
                (hs[h].pc = "rec" /\ hs'[h] # hs[h] /\ hs[h].prev = NoSnap) =>
                   /\ RecordedOnly(hs[h].pair, hs[h].prof)
                   /\ hs'[h] = IdleH
          /\ (/\ scan.pc = "session" /\ scan' # scan
              /\ prev_for_chat(snaps, UserOf(scan.cur.pair), scan.cur.cutoff,
                               get_member_first_seen(rows, scan.cur.pair)) = NoSnap) =>
                /\ RecordedOnly(scan.cur.pair, scan.prof)
                /\ scan'.pc = "loop" /\ scan'.res = "nodiff"]_vars

\* Both have met the user without a baseline: the scanner took the pair before
\* the handler of the first message recorded anything, and each recorded the
\* names and marked the pair; nothing was announced.
C40_Witness ==
    /\ scan.pc = "loop" /\ scan.res = "nodiff"
    /\ scan.cur.pair = 1 /\ scan.cur.cutoff = 0
    /\ hs[1] = IdleH
    /\ ncache[1][1] # NoName /\ ncache[1][1].ts = now
    /\ identity[1] = PB
    /\ Cardinality(snaps[1]) = 1
    /\ rows[1].last_checked = now
    /\ sent[1] = NoSent
    /\ cache = [p \in Procs |-> << >>]

====
